---------------------------- MODULE Spec2Model ----------------------------
(***************************************************************************)
(* A model of the ics23 proof verifier (src/src/ops.ts, src/src/proofs.ts, *)
(* src/src/ics23.ts).                                                      *)
(*                                                                         *)
(* Byte strings are sequences of atoms.  An atom is either one raw byte    *)
(* or one SHA-256 digest, kept as a term over its preimage: the digest of  *)
(* x equals the digest of y exactly when x = y (SHA-256 is taken to be     *)
(* collision free), and a digest counts for 32 bytes.                      *)
(*                                                                         *)
(* An optional field is a sequence of length 0 (absent) or 1 (present).    *)
(* A function that may throw returns [ok |-> FALSE, ...] for a throw; a    *)
(* void function that may throw is a predicate, FALSE for a throw.         *)
(***************************************************************************)
EXTENDS Integers, Sequences, FiniteSets

VARIABLES proof, pspec, root, pc, call, ret

vars == <<proof, pspec, root, pc, call, ret>>

---------------------------------------------------------------------------
(* Bytes *)

B(n) == [d |-> FALSE, b |-> n, pre |-> <<>>]

Digest(preimage) == [d |-> TRUE, b |-> 0, pre |-> preimage]

DigestSize == 32

byteLen(bytes) ==
  DigestSize * Cardinality({i \in 1..Len(bytes) : bytes[i].d})
    + Cardinality({i \in 1..Len(bytes) : ~bytes[i].d})

Absent == <<>>

Some(x) == <<x>>

Ok(v) == [ok |-> TRUE, val |-> v]

Err == [ok |-> FALSE, val |-> <<>>]

(* The position of a digest in byte order: an injective scramble of the    *)
(* preimage, unrelated to the byte order of the preimages themselves.      *)
DigestRank(preimage) ==
  IF Len(preimage) = 1 /\ ~preimage[1].d
  THEN (preimage[1].b * 5) % 11
  ELSE 0

AtomRank(a) == IF a.d THEN DigestRank(a.pre) ELSE a.b

bytesEqual(a, b) == a = b

RECURSIVE bytesBefore(_, _)
bytesBefore(first, last) ==
  IF first = <<>> THEN last # <<>>
  ELSE IF last = <<>> THEN FALSE
  ELSE IF Head(first) = Head(last) THEN bytesBefore(Tail(first), Tail(last))
  ELSE AtomRank(Head(first)) < AtomRank(Head(last))

hasPrefix(bytes, prefix) ==
  /\ Len(prefix) <= Len(bytes)
  /\ SubSeq(bytes, 1, Len(prefix)) = prefix

---------------------------------------------------------------------------
(* src/src/ops.ts *)

sha256(preimage) == <<Digest(preimage)>>

ensureHash(h) == IF h = "absent" THEN "NO_HASH" ELSE h

ensureLength(l) == IF l = "absent" THEN "NO_PREFIX" ELSE l

(* doHash taking NO_HASH for the identity, as doHashOrNoop does *)
doHashOrIdentity(hashOp, preimage) ==
  IF hashOp = "SHA256" THEN Ok(sha256(preimage))
  ELSE IF hashOp = "NO_HASH" THEN Ok(preimage)
  ELSE Err

doHash(hashOp, preimage) ==
  IF hashOp = "SHA256" THEN Ok(sha256(preimage)) ELSE Err

doHashOrNoop(hashOp, preimage) ==
  IF hashOp = "NO_HASH" THEN Ok(preimage) ELSE doHash(hashOp, preimage)

(* encodeVarintProto without the continuation bit *)
RECURSIVE encodeVarintProtoNoFlag(_)
encodeVarintProtoNoFlag(n) ==
  IF n >= 128
  THEN <<B(n % 128)>> \o encodeVarintProtoNoFlag(n \div 128)
  ELSE <<B(n)>>

(* l = l / 128 is a float division in the source; the fraction is dropped  *)
(* when the list becomes a Uint8Array, so each emitted byte is the integer *)
(* part.                                                                   *)
RECURSIVE encodeVarintProto(_)
encodeVarintProto(n) ==
  IF n >= 128
  THEN <<B((n % 128) + 128)>> \o encodeVarintProto(n \div 128)
  ELSE <<B(n)>>

encodeFixed32Le(n) ==
  <<B(n % 256), B((n \div 256) % 256),
    B((n \div 65536) % 256), B((n \div 16777216) % 256)>>

doLengthOp(lengthOp, data) ==
  CASE lengthOp = "NO_PREFIX" -> Ok(data)
    [] lengthOp = "VAR_PROTO" -> Ok(encodeVarintProto(byteLen(data)) \o data)
    [] lengthOp = "REQUIRE_32_BYTES" ->
         IF byteLen(data) # 32 THEN Err ELSE Ok(data)
    [] lengthOp = "REQUIRE_64_BYTES" ->
         IF byteLen(data) # 64 THEN Err ELSE Ok(data)
    [] lengthOp = "FIXED32_LITTLE" -> Ok(encodeFixed32Le(byteLen(data)) \o data)
    [] OTHER -> Err

prepareLeafData(hashOp, lengthOp, data) ==
  LET h == doHashOrNoop(hashOp, data)
  IN  IF ~h.ok THEN Err ELSE doLengthOp(lengthOp, h.val)

(* applyLeaf with the prepared value ahead of the prepared key *)
applyLeafValueFirst(leaf, key, value) ==
  IF byteLen(key) = 0 THEN Err
  ELSE IF byteLen(value) = 0 THEN Err
  ELSE
    LET pkey == prepareLeafData(ensureHash(leaf.prehashKey),
                                ensureLength(leaf.length), key)
        pvalue == prepareLeafData(ensureHash(leaf.prehashValue),
                                  ensureLength(leaf.length), value)
    IN  IF ~pkey.ok \/ ~pvalue.ok THEN Err
        ELSE doHash(ensureHash(leaf.hash),
                    leaf.prefix \o pvalue.val \o pkey.val)

applyLeaf(leaf, key, value) ==
  IF byteLen(key) = 0 THEN Err
  ELSE IF byteLen(value) = 0 THEN Err
  ELSE
    LET pkey == prepareLeafData(ensureHash(leaf.prehashKey),
                                ensureLength(leaf.length), key)
        pvalue == prepareLeafData(ensureHash(leaf.prehashValue),
                                  ensureLength(leaf.length), value)
    IN  IF ~pkey.ok \/ ~pvalue.ok THEN Err
        ELSE doHash(ensureHash(leaf.hash),
                    leaf.prefix \o pkey.val \o pvalue.val)

(* lookup[idx] with idx outside the table: the path holds undefined, and   *)
(* every read of a field of it throws a TypeError.                         *)
UndefinedInner == [hash |-> "undefined", prefix |-> <<>>, suffix |-> <<>>]

applyInner(inner, child) ==
  IF byteLen(child) = 0 THEN Err
  ELSE IF inner = UndefinedInner THEN Err
  ELSE doHash(ensureHash(inner.hash), inner.prefix \o child \o inner.suffix)

---------------------------------------------------------------------------
(* src/src/proofs.ts: the built-in specs *)

tendermintSpec ==
  [leafSpec |-> Some([prefix |-> <<B(0)>>, hash |-> "SHA256",
                      prehashValue |-> "SHA256", prehashKey |-> "NO_HASH",
                      length |-> "VAR_PROTO"]),
   innerSpec |-> Some([childOrder |-> <<0, 1>>, minPrefixLength |-> 1,
                       maxPrefixLength |-> 1, childSize |-> 32,
                       hash |-> "SHA256", emptyChild |-> <<>>]),
   minDepth |-> 0, maxDepth |-> 255, prehashKeyBeforeComparison |-> FALSE]

smtSpec ==
  [leafSpec |-> Some([prefix |-> <<B(0)>>, hash |-> "SHA256",
                      prehashValue |-> "SHA256", prehashKey |-> "SHA256",
                      length |-> "NO_PREFIX"]),
   innerSpec |-> Some([childOrder |-> <<0, 1>>, minPrefixLength |-> 1,
                       maxPrefixLength |-> 1, childSize |-> 32,
                       hash |-> "SHA256", emptyChild |-> <<>>]),
   minDepth |-> 0, maxDepth |-> 256, prehashKeyBeforeComparison |-> TRUE]

---------------------------------------------------------------------------
(* ./specs, imported by proofs.ts and ics23.ts *)

ensureBytesEqual(a, b) == bytesEqual(a, b)

ensureBytesBefore(first, last) == bytesBefore(first, last)

ensureLeaf(leaf, leafSpec) ==
  /\ leaf.hash = leafSpec.hash
  /\ leaf.prehashKey = leafSpec.prehashKey
  /\ leaf.prehashValue = leafSpec.prehashValue
  /\ leaf.length = leafSpec.length
  /\ leaf.prefix = leafSpec.prefix

ensureInner(inner, leafPrefix, innerSpec) ==
  /\ inner # UndefinedInner
  /\ inner.hash = innerSpec.hash
  /\ ~(leafPrefix # <<>> /\ hasPrefix(inner.prefix, leafPrefix))
  /\ byteLen(inner.prefix) >= innerSpec.minPrefixLength
  /\ byteLen(inner.prefix) <=
       innerSpec.maxPrefixLength
         + (Len(innerSpec.childOrder) - 1) * innerSpec.childSize

---------------------------------------------------------------------------
(* src/src/proofs.ts *)

(* keyForComparison without the prehash branch *)
keyForComparisonRaw(spec, key) == Ok(key)

keyForComparison(spec, key) ==
  IF ~spec.prehashKeyBeforeComparison THEN Ok(key)
  ELSE IF spec.leafSpec = Absent THEN Err
  ELSE doHash(spec.leafSpec[1].prehashKey, key)

(* foldInner taking the ops of the path from the last one to the first *)
RECURSIVE foldInnerReversed(_, _)
foldInnerReversed(path, res) ==
  IF path = <<>> THEN Ok(res)
  ELSE LET r == applyInner(path[Len(path)], res)
       IN  IF ~r.ok THEN Err
           ELSE foldInnerReversed(SubSeq(path, 1, Len(path) - 1), r.val)

RECURSIVE foldInner(_, _)
foldInner(path, res) ==
  IF path = <<>> THEN Ok(res)
  ELSE LET r == applyInner(Head(path), res)
       IN  IF ~r.ok THEN Err ELSE foldInner(Tail(path), r.val)

(* !proof.key and !proof.value are false for every Uint8Array, the empty   *)
(* one included.                                                           *)
calculateExistenceRoot(e) ==
  IF e.leaf = Absent THEN Err
  ELSE LET res == applyLeaf(e.leaf[1], e.key, e.value)
       IN  IF ~res.ok THEN Err ELSE foldInner(e.path, res.val)

(* ensureSpec looking at the first inner op only *)
ensureSpecFirstOnly(e, spec) ==
  /\ e.leaf # Absent
  /\ spec.leafSpec # Absent
  /\ spec.innerSpec # Absent
  /\ ensureLeaf(e.leaf[1], spec.leafSpec[1])
  /\ ~(spec.minDepth # 0 /\ Len(e.path) < spec.minDepth)
  /\ ~(spec.maxDepth # 0 /\ Len(e.path) > spec.maxDepth)
  /\ e.path # <<>> =>
       ensureInner(e.path[1], spec.leafSpec[1].prefix, spec.innerSpec[1])

(* ensureSpec with the lower depth bound off by one *)
ensureSpecOffByOne(e, spec) ==
  /\ e.leaf # Absent
  /\ spec.leafSpec # Absent
  /\ spec.innerSpec # Absent
  /\ ensureLeaf(e.leaf[1], spec.leafSpec[1])
  /\ ~(spec.minDepth # 0 /\ Len(e.path) <= spec.minDepth)
  /\ ~(spec.maxDepth # 0 /\ Len(e.path) > spec.maxDepth)
  /\ \A i \in 1..Len(e.path) :
       ensureInner(e.path[i], spec.leafSpec[1].prefix, spec.innerSpec[1])

ensureSpec(e, spec) ==
  /\ e.leaf # Absent
  /\ spec.leafSpec # Absent
  /\ spec.innerSpec # Absent
  /\ ensureLeaf(e.leaf[1], spec.leafSpec[1])
  /\ ~(spec.minDepth # 0 /\ Len(e.path) < spec.minDepth)
  /\ ~(spec.maxDepth # 0 /\ Len(e.path) > spec.maxDepth)
  /\ \A i \in 1..Len(e.path) :
       ensureInner(e.path[i], spec.leafSpec[1].prefix, spec.innerSpec[1])

(* verifyExistence without the comparison of the queried value *)
verifyExistenceNoValueCheck(e, spec, r, key, value) ==
  /\ ensureSpec(e, spec)
  /\ LET calc == calculateExistenceRoot(e)
     IN  calc.ok /\ ensureBytesEqual(calc.val, r)
  /\ ensureBytesEqual(key, e.key)

(* verifyExistence without the comparison of the queried key *)
verifyExistenceNoKeyCheck(e, spec, r, key, value) ==
  /\ ensureSpec(e, spec)
  /\ LET calc == calculateExistenceRoot(e)
     IN  calc.ok /\ ensureBytesEqual(calc.val, r)
  /\ ensureBytesEqual(value, e.value)

verifyExistence(e, spec, r, key, value) ==
  /\ ensureSpec(e, spec)
  /\ LET calc == calculateExistenceRoot(e)
     IN  calc.ok /\ ensureBytesEqual(calc.val, r)
  /\ ensureBytesEqual(key, e.key)
  /\ ensureBytesEqual(value, e.value)

(* order.findIndex(val => val === branch), 0-based, -1 when not found *)
RECURSIVE findIndex(_, _, _)
findIndex(order, branch, i) ==
  IF i > Len(order) THEN -1
  ELSE IF order[i] = branch THEN i - 1
  ELSE findIndex(order, branch, i + 1)

getPosition(order, branch) ==
  IF branch < 0 \/ branch >= Len(order) THEN Err
  ELSE Ok(findIndex(order, branch, 1))

getPadding(spec, branch) ==
  LET idx == getPosition(spec.childOrder, branch)
  IN  IF ~idx.ok THEN Err
      ELSE LET prefix == idx.val * spec.childSize
           IN  Ok([minPrefix |-> prefix + spec.minPrefixLength,
                   maxPrefix |-> prefix + spec.maxPrefixLength,
                   suffix |-> (Len(spec.childOrder) - 1 - idx.val)
                                * spec.childSize])

(* hasPadding looking at the prefix only *)
hasPaddingPrefixOnly(op, minPrefix, maxPrefix, suffix) ==
  IF byteLen(op.prefix) < minPrefix THEN FALSE
  ELSE byteLen(op.prefix) <= maxPrefix

hasPadding(op, minPrefix, maxPrefix, suffix) ==
  IF byteLen(op.prefix) < minPrefix THEN FALSE
  ELSE IF byteLen(op.prefix) > maxPrefix THEN FALSE
  ELSE byteLen(op.suffix) = suffix

stepsHavePadding(path, pad) ==
  \A i \in 1..Len(path) :
    /\ path[i] # UndefinedInner
    /\ hasPadding(path[i], pad.minPrefix, pad.maxPrefix, pad.suffix)

ensureLeftMost(spec, path) ==
  LET pad == getPadding(spec, 0)
  IN  pad.ok /\ stepsHavePadding(path, pad.val)

ensureRightMost(spec, path) ==
  LET pad == getPadding(spec, Len(spec.childOrder) - 1)
  IN  pad.ok /\ stepsHavePadding(path, pad.val)

RECURSIVE orderFromPaddingFrom(_, _, _)
orderFromPaddingFrom(spec, inner, branch) ==
  IF branch >= Len(spec.childOrder) THEN Err
  ELSE LET pad == getPadding(spec, branch)
       IN  IF ~pad.ok THEN Err
           ELSE IF hasPadding(inner, pad.val.minPrefix, pad.val.maxPrefix,
                              pad.val.suffix)
                THEN Ok(branch)
                ELSE orderFromPaddingFrom(spec, inner, branch + 1)

orderFromPadding(spec, inner) == orderFromPaddingFrom(spec, inner, 0)

(* isLeftStep accepting every right branch after the left one *)
isLeftStepAnyLater(spec, left, right) ==
  LET leftidx == orderFromPadding(spec, left)
      rightidx == orderFromPadding(spec, right)
  IN  [ok |-> leftidx.ok /\ rightidx.ok,
       val |-> leftidx.ok /\ rightidx.ok /\ rightidx.val > leftidx.val]

isLeftStep(spec, left, right) ==
  LET leftidx == orderFromPadding(spec, left)
      rightidx == orderFromPadding(spec, right)
  IN  [ok |-> leftidx.ok /\ rightidx.ok,
       val |-> leftidx.ok /\ rightidx.ok /\ rightidx.val = leftidx.val + 1]

(* The two working stacks are the first nl steps of left and the first nr  *)
(* steps of right; pop() of an empty stack gives undefined, and reading    *)
(* its prefix throws.                                                      *)
RECURSIVE ensureLeftNeighborFrom(_, _, _, _, _)
ensureLeftNeighborFrom(spec, left, right, nl, nr) ==
  IF nl = 0 \/ nr = 0 THEN FALSE
  ELSE
    LET topleft == left[nl]
        topright == right[nr]
    IN  IF topleft = UndefinedInner \/ topright = UndefinedInner THEN FALSE
        ELSE IF /\ bytesEqual(topleft.prefix, topright.prefix)
                /\ bytesEqual(topleft.suffix, topright.suffix)
        THEN ensureLeftNeighborFrom(spec, left, right, nl - 1, nr - 1)
        ELSE LET step == isLeftStep(spec, topleft, topright)
             IN  /\ step.ok
                 /\ step.val
                 /\ ensureRightMost(spec, SubSeq(left, 1, nl - 1))
                 /\ ensureLeftMost(spec, SubSeq(right, 1, nr - 1))

ensureLeftNeighbor(spec, left, right) ==
  ensureLeftNeighborFrom(spec, left, right, Len(left), Len(right))

(* verifyNonExistence with the two one-sided adjacency checks exchanged *)
verifyNonExistenceSwapped(ne, spec, r, key) ==
  /\ ne.left # Absent =>
       verifyExistence(ne.left[1], spec, r, ne.left[1].key, ne.left[1].value)
  /\ ne.right # Absent =>
       verifyExistence(ne.right[1], spec, r, ne.right[1].key,
                       ne.right[1].value)
  /\ ~(ne.left = Absent /\ ne.right = Absent)
  /\ ne.left # Absent =>
       LET a == keyForComparison(spec, ne.left[1].key)
           b == keyForComparison(spec, key)
       IN  a.ok /\ b.ok /\ ensureBytesBefore(a.val, b.val)
  /\ ne.right # Absent =>
       LET a == keyForComparison(spec, key)
           b == keyForComparison(spec, ne.right[1].key)
       IN  a.ok /\ b.ok /\ ensureBytesBefore(a.val, b.val)
  /\ spec.innerSpec # Absent
  /\ IF ne.left = Absent
     THEN ensureRightMost(spec.innerSpec[1], ne.right[1].path)
     ELSE IF ne.right = Absent
     THEN ensureLeftMost(spec.innerSpec[1], ne.left[1].path)
     ELSE ensureLeftNeighbor(spec.innerSpec[1], ne.left[1].path,
                             ne.right[1].path)

(* verifyNonExistence comparing the queried key as given *)
verifyNonExistenceRawKey(ne, spec, r, key) ==
  /\ ne.left # Absent =>
       verifyExistence(ne.left[1], spec, r, ne.left[1].key, ne.left[1].value)
  /\ ne.right # Absent =>
       verifyExistence(ne.right[1], spec, r, ne.right[1].key,
                       ne.right[1].value)
  /\ ~(ne.left = Absent /\ ne.right = Absent)
  /\ ne.left # Absent =>
       LET a == keyForComparison(spec, ne.left[1].key)
       IN  a.ok /\ ensureBytesBefore(a.val, key)
  /\ ne.right # Absent =>
       LET b == keyForComparison(spec, ne.right[1].key)
       IN  b.ok /\ ensureBytesBefore(key, b.val)
  /\ spec.innerSpec # Absent
  /\ IF ne.left = Absent
     THEN ensureLeftMost(spec.innerSpec[1], ne.right[1].path)
     ELSE IF ne.right = Absent
     THEN ensureRightMost(spec.innerSpec[1], ne.left[1].path)
     ELSE ensureLeftNeighbor(spec.innerSpec[1], ne.left[1].path,
                             ne.right[1].path)

verifyNonExistence(ne, spec, r, key) ==
  /\ ne.left # Absent =>
       verifyExistence(ne.left[1], spec, r, ne.left[1].key, ne.left[1].value)
  /\ ne.right # Absent =>
       verifyExistence(ne.right[1], spec, r, ne.right[1].key,
                       ne.right[1].value)
  /\ ~(ne.left = Absent /\ ne.right = Absent)
  /\ ne.left # Absent =>
       LET a == keyForComparison(spec, ne.left[1].key)
           b == keyForComparison(spec, key)
       IN  a.ok /\ b.ok /\ ensureBytesBefore(a.val, b.val)
  /\ ne.right # Absent =>
       LET a == keyForComparison(spec, key)
           b == keyForComparison(spec, ne.right[1].key)
       IN  a.ok /\ b.ok /\ ensureBytesBefore(a.val, b.val)
  /\ spec.innerSpec # Absent
  /\ IF ne.left = Absent
     THEN ensureLeftMost(spec.innerSpec[1], ne.right[1].path)
     ELSE IF ne.right = Absent
     THEN ensureRightMost(spec.innerSpec[1], ne.left[1].path)
     ELSE ensureLeftNeighbor(spec.innerSpec[1], ne.left[1].path,
                             ne.right[1].path)

---------------------------------------------------------------------------
(* src/src/ops.ts: compress and decompress *)

(* InnerOp.encode(inner).finish(): the wire bytes of an inner op, equal    *)
(* for two ops exactly when their three fields are equal.                  *)
encodeInnerOp(inner) == <<inner.hash, inner.prefix, inner.suffix>>

(* Every finish() allocates a new Uint8Array: addr is its identity.        *)
newSig(inner, allocs) == [addr |-> allocs + 1, bytes |-> encodeInnerOp(inner)]

(* Map.prototype.get on a Map<Uint8Array, number>: keys are objects, found *)
(* by identity (SameValueZero).  -1 stands for undefined.                  *)
sameKey(k1, k2) == k1.addr = k2.addr

RECURSIVE registryGet(_, _)
registryGet(registry, sig) ==
  IF registry = <<>> THEN -1
  ELSE IF sameKey(Head(registry).key, sig) THEN Head(registry).idx
  ELSE registryGet(Tail(registry), sig)

(* st = [lookup, registry, allocs]; the path.map callback, left to right.  *)
RECURSIVE compressPath(_, _, _)
compressPath(path, st, acc) ==
  IF path = <<>> THEN [ok |-> TRUE, path |-> acc, st |-> st]
  ELSE IF Head(path) = UndefinedInner
  THEN [ok |-> FALSE, path |-> acc, st |-> st]
  ELSE
    LET inner == Head(path)
        sig == newSig(inner, st.allocs)
        found == registryGet(st.registry, sig)
        idx == IF found = -1 THEN Len(st.lookup) ELSE found
        st2 == IF found = -1
               THEN [lookup |-> Append(st.lookup, inner),
                     registry |-> Append(st.registry,
                                         [key |-> sig, idx |-> idx]),
                     allocs |-> st.allocs + 1]
               ELSE [st EXCEPT !.allocs = st.allocs + 1]
    IN  compressPath(Tail(path), st2, Append(acc, idx))

compressExist(exist, st) ==
  IF exist = Absent THEN [ok |-> TRUE, val |-> Absent, st |-> st]
  ELSE LET r == compressPath(exist[1].path, st, <<>>)
       IN  [ok |-> r.ok,
            val |-> Some([key |-> exist[1].key, value |-> exist[1].value,
                          leaf |-> exist[1].leaf, path |-> r.path]),
            st |-> r.st]

RECURSIVE compressEntries(_, _, _)
compressEntries(entries, st, centries) ==
  IF entries = <<>>
  THEN Ok([entries |-> centries, lookupInners |-> st.lookup])
  ELSE
    LET entry == Head(entries)
    IN  IF entry.exist # Absent
        THEN LET c == compressExist(entry.exist, st)
             IN  IF ~c.ok THEN Err
                 ELSE compressEntries(Tail(entries), c.st,
                        Append(centries,
                               [exist |-> c.val, nonexist |-> Absent]))
        ELSE IF entry.nonexist # Absent
        THEN LET non == entry.nonexist[1]
                 l == compressExist(non.left, st)
                 r == compressExist(non.right, l.st)
             IN  IF ~l.ok \/ ~r.ok THEN Err
                 ELSE compressEntries(Tail(entries), r.st,
                        Append(centries,
                               [exist |-> Absent,
                                nonexist |-> Some([key |-> non.key,
                                                   left |-> l.val,
                                                   right |-> r.val])]))
        ELSE Err

compressBatch(batch) ==
  compressEntries(batch.entries,
                  [lookup |-> <<>>, registry |-> <<>>, allocs |-> 0], <<>>)

OnlyBatch(b) ==
  [exist |-> Absent, nonexist |-> Absent, batch |-> Some(b),
   compressed |-> Absent]

OnlyCompressed(c) ==
  [exist |-> Absent, nonexist |-> Absent, batch |-> Absent,
   compressed |-> Some(c)]

compress(p) ==
  IF p.batch = Absent THEN Ok(p)
  ELSE LET c == compressBatch(p.batch[1])
       IN  IF ~c.ok THEN Err ELSE Ok(OnlyCompressed(c.val))

(* lookupAt reading the table from index 1 *)
lookupAtOneBased(lookup, idx) ==
  IF idx >= 1 /\ idx <= Len(lookup) THEN lookup[idx] ELSE UndefinedInner

(* lookup[idx]: indices count from 0; undefined outside the table *)
lookupAt(lookup, idx) ==
  IF idx >= 0 /\ idx < Len(lookup) THEN lookup[idx + 1] ELSE UndefinedInner

(* decompressExist leaving the leaf op out of the restored proof *)
decompressExistNoLeaf(exist, lookup) ==
  IF exist = Absent THEN Absent
  ELSE Some([key |-> exist[1].key, value |-> exist[1].value,
             leaf |-> Absent,
             path |-> [i \in 1..Len(exist[1].path) |->
                         lookupAt(lookup, exist[1].path[i])]])

decompressExist(exist, lookup) ==
  IF exist = Absent THEN Absent
  ELSE Some([key |-> exist[1].key, value |-> exist[1].value,
             leaf |-> exist[1].leaf,
             path |-> [i \in 1..Len(exist[1].path) |->
                         lookupAt(lookup, exist[1].path[i])]])

decompressEntry(comp, lookup) ==
  IF comp.exist # Absent
  THEN Ok([exist |-> decompressExist(comp.exist, lookup),
           nonexist |-> Absent])
  ELSE IF comp.nonexist # Absent
  THEN LET non == comp.nonexist[1]
       IN  Ok([exist |-> Absent,
               nonexist |-> Some([key |-> non.key,
                                  left |-> decompressExist(non.left, lookup),
                                  right |-> decompressExist(non.right,
                                                            lookup)])])
  ELSE Err

decompressBatch(c) ==
  IF \E i \in 1..Len(c.entries) : ~decompressEntry(c.entries[i], c.lookupInners).ok
  THEN Err
  ELSE Ok([entries |-> [i \in 1..Len(c.entries) |->
                          decompressEntry(c.entries[i], c.lookupInners).val]])

decompress(p) ==
  IF p.compressed = Absent THEN Ok(p)
  ELSE LET b == decompressBatch(p.compressed[1])
       IN  IF ~b.ok THEN Err ELSE Ok(OnlyBatch(b.val))

---------------------------------------------------------------------------
(* src/src/ics23.ts *)

(* A call of the public API ends in one of three ways. *)
Returned(b) == [threw |-> FALSE, val |-> b]

Threw == [threw |-> TRUE, val |-> FALSE]

matchExist(p, key) == p # Absent /\ bytesEqual(key, p[1].key)

(* find taking the last matching entry of the batch, not the first *)
findExistLast(entries, key) ==
  LET hits == {i \in 1..Len(entries) : matchExist(entries[i].exist, key)}
  IN  IF hits = {} THEN Absent
      ELSE entries[CHOOSE i \in hits : \A j \in hits : j <= i].exist

RECURSIVE findExist(_, _)
findExist(entries, key) ==
  IF entries = <<>> THEN Absent
  ELSE IF matchExist(Head(entries).exist, key) THEN Head(entries).exist
  ELSE findExist(Tail(entries), key)

getExistForKey(p, key) ==
  IF matchExist(p.exist, key) THEN p.exist
  ELSE IF p.batch # Absent THEN findExist(p.batch[1].entries, key)
  ELSE Absent

verifyMembership(p, spec, r, key, value) ==
  LET norm == decompress(p)
  IN  IF ~norm.ok THEN Threw
      ELSE LET exist == getExistForKey(norm.val, key)
           IN  IF exist = Absent THEN Returned(FALSE)
               ELSE Returned(verifyExistence(exist[1], spec, r, key, value))

(* bytesBefore(await keyForComparison(spec, a), await keyForComparison(spec, b)) *)
comparedBefore(spec, a, b) ==
  LET ka == keyForComparison(spec, a)
      kb == keyForComparison(spec, b)
  IN  IF ~ka.ok \/ ~kb.ok THEN Err ELSE Ok(bytesBefore(ka.val, kb.val))

matchNonExist(spec, p, key) ==
  IF p = Absent THEN Ok(FALSE)
  ELSE
    LET l == IF p[1].left = Absent THEN Ok(TRUE)
             ELSE comparedBefore(spec, p[1].left[1].key, key)
    IN  IF ~l.ok THEN Err
        ELSE IF ~l.val THEN Ok(FALSE)
        ELSE IF p[1].right = Absent THEN Ok(TRUE)
        ELSE comparedBefore(spec, key, p[1].right[1].key)

RECURSIVE findNonExist(_, _, _)
findNonExist(spec, entries, key) ==
  IF entries = <<>> THEN Ok(Absent)
  ELSE LET candidate == Head(entries).nonexist
           m == matchNonExist(spec, candidate, key)
       IN  IF ~m.ok THEN Err
           ELSE IF m.val THEN Ok(candidate)
           ELSE findNonExist(spec, Tail(entries), key)

getNonExistForKey(spec, p, key) ==
  LET m == matchNonExist(spec, p.nonexist, key)
  IN  IF ~m.ok THEN Err
      ELSE IF m.val THEN Ok(p.nonexist)
      ELSE IF p.batch # Absent
      THEN findNonExist(spec, p.batch[1].entries, key)
      ELSE Ok(Absent)

verifyNonMembership(p, spec, r, key) ==
  LET norm == decompress(p)
  IN  IF ~norm.ok THEN Threw
      ELSE LET nonexist == getNonExistForKey(spec, norm.val, key)
           IN  IF ~nonexist.ok THEN Threw
               ELSE IF nonexist.val = Absent THEN Returned(FALSE)
               ELSE Returned(verifyNonExistence(nonexist.val[1], spec, r, key))

(* The for loops of the batch verifiers: calls counts the single-item      *)
(* verifications made.                                                     *)
RECURSIVE membershipLoop(_, _, _, _, _)
membershipLoop(norm, spec, r, items, calls) ==
  IF items = <<>> THEN [threw |-> FALSE, val |-> TRUE, calls |-> calls]
  ELSE LET one == verifyMembership(norm, spec, r, Head(items).key,
                                   Head(items).value)
       IN  IF one.threw
           THEN [threw |-> TRUE, val |-> FALSE, calls |-> calls + 1]
           ELSE IF ~one.val
           THEN [threw |-> FALSE, val |-> FALSE, calls |-> calls + 1]
           ELSE membershipLoop(norm, spec, r, Tail(items), calls + 1)

batchVerifyMembership(p, spec, r, items) ==
  LET norm == decompress(p)
  IN  IF ~norm.ok THEN [threw |-> TRUE, val |-> FALSE, calls |-> 0]
      ELSE membershipLoop(norm.val, spec, r, items, 0)

RECURSIVE nonMembershipLoop(_, _, _, _, _)
nonMembershipLoop(norm, spec, r, keys, calls) ==
  IF keys = <<>> THEN [threw |-> FALSE, val |-> TRUE, calls |-> calls]
  ELSE LET one == verifyNonMembership(norm, spec, r, Head(keys))
       IN  IF one.threw
           THEN [threw |-> TRUE, val |-> FALSE, calls |-> calls + 1]
           ELSE IF ~one.val
           THEN [threw |-> FALSE, val |-> FALSE, calls |-> calls + 1]
           ELSE nonMembershipLoop(norm, spec, r, Tail(keys), calls + 1)

batchVerifyNonMembership(p, spec, r, keys) ==
  LET norm == decompress(p)
  IN  IF ~norm.ok THEN [threw |-> TRUE, val |-> FALSE, calls |-> 0]
      ELSE nonMembershipLoop(norm.val, spec, r, keys, 0)

---------------------------------------------------------------------------
(* The inputs: a committed tree of four leaves per spec, the proofs it     *)
(* yields and damaged variants of them.                                    *)

MaxKey == 9

MaxDepth == 3

MaxEntries == 2

MaxItems == 2

KeyOf(n) == <<B(n)>>

ValueOf(n) == <<B(n + 20)>>

WrongValue == <<B(99)>>

Keys == {KeyOf(n) : n \in 1..MaxKey}

innerPrefix == <<B(1)>>

WithDepth(spec, lo, hi) == [spec EXCEPT !.minDepth = lo, !.maxDepth = hi]

(* prehashKeyBeforeComparison with a leaf spec that does not prehash keys *)
BadHashSpec ==
  [smtSpec EXCEPT !.leafSpec = Some([smtSpec.leafSpec[1] EXCEPT
                                       !.prehashKey = "NO_HASH"])]

NoLeafSpec == [tendermintSpec EXCEPT !.leafSpec = Absent]

NoInnerSpec == [tendermintSpec EXCEPT !.innerSpec = Absent]

TreeLeafOp(spec) ==
  IF spec.leafSpec = Absent THEN tendermintSpec.leafSpec[1]
  ELSE spec.leafSpec[1]

(* The four committed keys, in the order of the tree: byte order of the    *)
(* keys, or of their digests when the spec compares prehashed keys.        *)
TreeKeys(spec) ==
  IF spec.prehashKeyBeforeComparison /\ TreeLeafOp(spec).prehashKey = "SHA256"
  THEN <<7, 3, 8, 4>>
  ELSE <<2, 4, 6, 8>>

LeafHash(spec, i) ==
  applyLeaf(TreeLeafOp(spec), KeyOf(TreeKeys(spec)[i]),
            ValueOf(TreeKeys(spec)[i])).val

Node(l, r) == sha256(innerPrefix \o l \o r)

StepLeft(sibling) ==
  [hash |-> "SHA256", prefix |-> innerPrefix, suffix |-> sibling]

StepRight(sibling) ==
  [hash |-> "SHA256", prefix |-> innerPrefix \o sibling, suffix |-> <<>>]

LeafHashes(spec) == [i \in 1..4 |-> LeafHash(spec, i)]

(* The tree over four leaf hashes h: the root is                           *)
(* Node(Node(h[1], h[2]), Node(h[3], h[4])).                               *)
N12(h) == Node(h[1], h[2])

N34(h) == Node(h[3], h[4])

RootOf(h) == Node(N12(h), N34(h))

TreeRoot(spec) == RootOf(LeafHashes(spec))

PathOf(h, i) ==
  CASE i = 1 -> <<StepLeft(h[2]), StepLeft(N34(h))>>
    [] i = 2 -> <<StepRight(h[1]), StepLeft(N34(h))>>
    [] i = 3 -> <<StepLeft(h[4]), StepRight(N12(h))>>
    [] i = 4 -> <<StepRight(h[3]), StepRight(N12(h))>>

TreePath(spec, i) == PathOf(LeafHashes(spec), i)

TreeProof(spec, i) ==
  [key |-> KeyOf(TreeKeys(spec)[i]), value |-> ValueOf(TreeKeys(spec)[i]),
   leaf |-> Some(TreeLeafOp(spec)), path |-> TreePath(spec, i)]

(* The existence proofs of the four leaves, P[1] .. P[4] below *)
TreeProofs(spec) == [i \in 1..4 |-> TreeProof(spec, i)]

Damaged(e) ==
  { [e EXCEPT !.value = WrongValue],
    [e EXCEPT !.leaf = Absent],
    [e EXCEPT !.leaf = Some([e.leaf[1] EXCEPT !.prefix = <<B(9)>>])],
    [e EXCEPT !.leaf = Some([e.leaf[1] EXCEPT !.hash = "NO_HASH"])],
    [e EXCEPT !.key = <<>>],
    [e EXCEPT !.value = <<>>],
    [e EXCEPT !.path[2] = [e.path[2] EXCEPT !.hash = "NO_HASH"]],
    [e EXCEPT !.path[2] = [e.path[2] EXCEPT !.prefix = <<>>]],
    [e EXCEPT !.path = SubSeq(e.path, 1, 1)],
    [e EXCEPT !.path = <<>>],
    [e EXCEPT !.path = e.path \o <<StepLeft(<<>>)>>],
    [e EXCEPT !.path = e.path \o <<StepLeft(e.path[1].suffix)>>],
    [e EXCEPT !.path[1] = [e.path[1] EXCEPT !.prefix = <<B(0), B(1)>>]],
    [e EXCEPT !.path[1] = [e.path[1] EXCEPT !.hash = "NO_HASH"]],
    [e EXCEPT !.path[2] = UndefinedInner] }

ExistProofs(P) ==
  {P[i] : i \in 1..4} \cup Damaged(P[1])
    \cup {[P[3] EXCEPT !.value = WrongValue]}

NonExist(l, r) == [key |-> KeyOf(5), left |-> l, right |-> r]

NonExistProofs(P) ==
  { NonExist(Absent, Some(P[1])), NonExist(Some(P[1]), Some(P[2])),
    NonExist(Some(P[2]), Some(P[3])), NonExist(Some(P[3]), Some(P[4])),
    NonExist(Some(P[4]), Absent), NonExist(Absent, Absent),
    NonExist(Some(P[1]), Some(P[3])), NonExist(Some(P[1]), Some(P[4])),
    NonExist(Absent, Some(P[2])), NonExist(Absent, Some(P[3])),
    NonExist(Some(P[3]), Absent), NonExist(Some(P[2]), Absent),
    NonExist(Some(P[2]), Some(P[1])), NonExist(Some(P[2]), Some(P[2])),
    NonExist(Some(P[1]), Absent), NonExist(Absent, Some(P[4])),
    NonExist(Some([P[1] EXCEPT !.value = WrongValue]), Some(P[2])),
    NonExist(Some(P[1]), Some([P[2] EXCEPT !.leaf = Absent])),
    NonExist(Some([P[4] EXCEPT !.path = <<>>]), Absent) }

OnlyExist(e) ==
  [exist |-> Some(e), nonexist |-> Absent, batch |-> Absent,
   compressed |-> Absent]

OnlyNonExist(n) ==
  [exist |-> Absent, nonexist |-> Some(n), batch |-> Absent,
   compressed |-> Absent]

Bogus == sha256(<<B(9), B(9)>>)

Roots(h) == {RootOf(h), N12(h), h[1], Bogus}

ExistEntry(e) == [exist |-> Some(e), nonexist |-> Absent]

NonExistEntry(n) == [exist |-> Absent, nonexist |-> Some(n)]

(* A decoded BatchEntry or CompressedBatchEntry with no field set *)
EmptyEntry == [exist |-> Absent, nonexist |-> Absent]

BatchEntries(P) ==
  { ExistEntry(P[1]),
    ExistEntry([P[1] EXCEPT !.value = WrongValue]),
    ExistEntry(P[2]),
    NonExistEntry(NonExist(Some(P[1]), Some(P[2]))),
    NonExistEntry(NonExist(Some(P[1]), Some(P[3]))),
    NonExistEntry(NonExist(Absent, Some(P[1]))),
    EmptyEntry }

SeqsUpTo(S, n) == UNION {[1..k -> S] : k \in 0..n}

Batches(P) ==
  {OnlyBatch([entries |-> es]) : es \in SeqsUpTo(BatchEntries(P), MaxEntries)}

(* Damaged compressed proofs, made from a compressed batch c: an entry     *)
(* with no field set, a path index outside lookupInners.                   *)
DamagedCompressed(c) ==
  { OnlyCompressed([c EXCEPT !.entries = Append(c.entries, EmptyEntry)]),
    OnlyCompressed([c EXCEPT !.entries = <<EmptyEntry>> \o c.entries]),
    OnlyCompressed([c EXCEPT !.lookupInners = SubSeq(c.lookupInners, 1, 1)]),
    OnlyCompressed([c EXCEPT !.lookupInners = <<>>]) }

(* The batches bs, and the compressed proofs compress emits from them *)
WithCompressed(bs) ==
  bs \cup {compress(b).val : b \in {x \in bs : compress(x).ok}}

SampleBatch(P) ==
  OnlyBatch([entries |->
    <<ExistEntry(P[1]), NonExistEntry(NonExist(Some(P[1]), Some(P[2])))>>])

ProofsOver(P) ==
  {OnlyExist(e) : e \in {P[1], P[3], [P[1] EXCEPT !.value = WrongValue]}}
    \cup {OnlyNonExist(n) : n \in
            {NonExist(Some(P[1]), Some(P[2])), NonExist(Absent, Some(P[1])),
             NonExist(Some(P[2]), Some(P[4])), NonExist(Absent, Absent)}}
    \cup WithCompressed(Batches(P))
    \cup DamagedCompressed(compress(SampleBatch(P)).val.compressed[1])

ApiProofs(spec) == ProofsOver(TreeProofs(spec))

ApiSpecs == {tendermintSpec, smtSpec, BadHashSpec, NoLeafSpec}

ApiRoots(spec) == {TreeRoot(spec), Bogus}

Item(k, v) == [key |-> k, value |-> v]

Items(spec) ==
  { Item(KeyOf(TreeKeys(spec)[1]), ValueOf(TreeKeys(spec)[1])),
    Item(KeyOf(TreeKeys(spec)[2]), ValueOf(TreeKeys(spec)[2])),
    Item(KeyOf(TreeKeys(spec)[1]), WrongValue) }

(* Absent keys: before the first leaf, between the first two, between the  *)
(* second and the third; and one committed key.                            *)
BatchKeys(spec) ==
  IF TreeKeys(spec)[1] = 2
  THEN {KeyOf(1), KeyOf(3), KeyOf(5), KeyOf(2)}
  ELSE {KeyOf(9), KeyOf(5), KeyOf(1), KeyOf(7)}

---------------------------------------------------------------------------
(* The state machine.  A run draws its inputs (proof, pspec, root) at the  *)
(* start; each action is one call of one exported function on them, with   *)
(* the remaining arguments chosen at the call.                             *)

NoCall == [op |-> "none", key |-> <<>>, value |-> <<>>, items |-> <<>>]

Ret(threw, val, calls, out) ==
  [threw |-> threw, val |-> val, calls |-> calls, out |-> out]

NoRet == Ret(FALSE, FALSE, 0, <<>>)

(* What a call leaves behind: of a verifier answering r = [threw, val],    *)
(* of a batch verifier, which also counts its single-item calls, and of a  *)
(* function that returns r.val or throws.                                  *)
Answer(r) == Ret(r.threw, r.val, 0, <<>>)

BatchAnswer(r) == Ret(r.threw, r.val, r.calls, <<>>)

Outcome(r) == Ret(~r.ok, TRUE, 0, r.val)

QueryKeys == Keys \cup {<<>>}

QueryValues(spec) ==
  {ValueOf(TreeKeys(spec)[1]), ValueOf(TreeKeys(spec)[3]), WrongValue}

ProofLevelSpecs ==
  {tendermintSpec, smtSpec, BadHashSpec, NoLeafSpec, NoInnerSpec}
    \cup {WithDepth(tendermintSpec, lo, hi) : lo \in 0..MaxDepth,
                                              hi \in 0..MaxDepth}

ProofLevelProofs(P) ==
  {OnlyExist(e) : e \in ExistProofs(P)}
    \cup {OnlyNonExist(n) : n \in NonExistProofs(P)}

InitProofs ==
  /\ pspec \in ProofLevelSpecs
  /\ proof \in ProofLevelProofs(TreeProofs(pspec))
  /\ root \in Roots(LeafHashes(pspec))
  /\ pc = "ready"
  /\ call = NoCall
  /\ ret = NoRet

Done(c, r) ==
  /\ pc' = "done"
  /\ call' = c
  /\ ret' = r
  /\ UNCHANGED <<proof, pspec, root>>

EnsureSpec ==
  /\ pc = "ready"
  /\ proof.exist # Absent
  /\ Done([NoCall EXCEPT !.op = "ensureSpec"],
          Ret(~ensureSpec(proof.exist[1], pspec), TRUE, 0, <<>>))

CalculateExistenceRoot ==
  /\ pc = "ready"
  /\ proof.exist # Absent
  /\ Done([NoCall EXCEPT !.op = "calculateExistenceRoot"],
          Outcome(calculateExistenceRoot(proof.exist[1])))

VerifyExistence ==
  /\ pc = "ready"
  /\ proof.exist # Absent
  /\ \E key \in QueryKeys, value \in QueryValues(pspec) :
       Done([NoCall EXCEPT !.op = "verifyExistence", !.key = key,
                           !.value = value],
            Ret(~verifyExistence(proof.exist[1], pspec, root, key, value),
                TRUE, 0, <<>>))

VerifyNonExistence ==
  /\ pc = "ready"
  /\ proof.nonexist # Absent
  /\ \E key \in QueryKeys :
       Done([NoCall EXCEPT !.op = "verifyNonExistence", !.key = key],
            Ret(~verifyNonExistence(proof.nonexist[1], pspec, root, key),
                TRUE, 0, <<>>))

NextProofs ==
  \/ EnsureSpec
  \/ CalculateExistenceRoot
  \/ VerifyExistence
  \/ VerifyNonExistence

SpecProofs == InitProofs /\ [][NextProofs]_vars

---------------------------------------------------------------------------
(* Claims about the proof-level functions, checked under SpecProofs.       *)

After(op) == pc = "done" /\ call.op = op

(* C2: for an existence proof e that passes ensureSpec(e, s), and every    *)
(* root r, verifyExistence(e, s, r, e.key, e.value) succeeds exactly when  *)
(* calculateExistenceRoot(e) equals r; with a queried key or value that    *)
(* differs from e's, it fails whatever the root.                           *)
C2_ExistenceIffRoot ==
  (After("verifyExistence") /\ ensureSpec(proof.exist[1], pspec)) =>
    LET e == proof.exist[1]
        calc == calculateExistenceRoot(e)
    IN  IF call.key = e.key /\ call.value = e.value
        THEN ~ret.threw <=> (calc.ok /\ calc.val = root)
        ELSE ret.threw

C2_Witness ==
  /\ After("verifyExistence")
  /\ ensureSpec(proof.exist[1], pspec)
  /\ call.key = proof.exist[1].key
  /\ call.value = proof.exist[1].value
  /\ ~ret.threw

(* The comparison key of the claim: K(k) = prehashKey(k) when the spec     *)
(* compares prehashed keys, k otherwise.                                   *)
ComparisonKey(spec, k) ==
  IF spec.prehashKeyBeforeComparison
  THEN doHashOrNoop(spec.leafSpec[1].prehashKey, k).val
  ELSE k

(* C4: when verifyNonExistence succeeds, a neighbour is present, every     *)
(* present neighbour passes verifyExistence against the same root with its *)
(* own key and value, and K(left.key) < K(key) < K(right.key) holds for    *)
(* the neighbours present; a proof with neither neighbour fails.           *)
C4_NonExistenceBrackets ==
  After("verifyNonExistence") =>
    LET ne == proof.nonexist[1]
    IN  /\ (ne.left = Absent /\ ne.right = Absent) => ret.threw
        /\ ~ret.threw =>
             /\ ne.left # Absent \/ ne.right # Absent
             /\ ne.left # Absent =>
                  /\ verifyExistence(ne.left[1], pspec, root, ne.left[1].key,
                                     ne.left[1].value)
                  /\ bytesBefore(ComparisonKey(pspec, ne.left[1].key),
                                 ComparisonKey(pspec, call.key))
             /\ ne.right # Absent =>
                  /\ verifyExistence(ne.right[1], pspec, root,
                                     ne.right[1].key, ne.right[1].value)
                  /\ bytesBefore(ComparisonKey(pspec, call.key),
                                 ComparisonKey(pspec, ne.right[1].key))

C4_Witness ==
  /\ After("verifyNonExistence")
  /\ ~ret.threw
  /\ pspec.prehashKeyBeforeComparison
  /\ proof.nonexist[1].left # Absent
  /\ proof.nonexist[1].right # Absent

(* C5: a successful verifyNonExistence has checked the adjacency that      *)
(* matches the neighbours present: right only, every step of right.path    *)
(* has the padding of branch 0; left only, every step of left.path has the *)
(* padding of the last branch; both, ensureLeftNeighbor passes.            *)
C5_Adjacency ==
  (After("verifyNonExistence") /\ ~ret.threw) =>
    LET ne == proof.nonexist[1]
        ispec == pspec.innerSpec[1]
        first == getPadding(ispec, 0)
        last == getPadding(ispec, Len(ispec.childOrder) - 1)
    IN  /\ (ne.left = Absent /\ ne.right # Absent) =>
             first.ok /\ stepsHavePadding(ne.right[1].path, first.val)
        /\ (ne.left # Absent /\ ne.right = Absent) =>
             last.ok /\ stepsHavePadding(ne.left[1].path, last.val)
        /\ (ne.left # Absent /\ ne.right # Absent) =>
             ensureLeftNeighbor(ispec, ne.left[1].path, ne.right[1].path)

C5_Witness ==
  /\ After("verifyNonExistence")
  /\ ~ret.threw
  /\ proof.nonexist[1].left # Absent
  /\ proof.nonexist[1].right = Absent
  /\ Len(proof.nonexist[1].left[1].path) > 0

(* The leaf and the inner ops of e conform to the spec, depth aside. *)
OtherwiseConforms(e, spec) ==
  /\ e.leaf # Absent
  /\ spec.leafSpec # Absent
  /\ spec.innerSpec # Absent
  /\ ensureLeaf(e.leaf[1], spec.leafSpec[1])
  /\ \A i \in 1..Len(e.path) :
       ensureInner(e.path[i], spec.leafSpec[1].prefix, spec.innerSpec[1])

(* C10: a proof whose leaf and inner ops conform is accepted by ensureSpec *)
(* exactly when (minDepth = 0 or len(path) >= minDepth) and (maxDepth = 0  *)
(* or len(path) <= maxDepth).                                              *)
C10_DepthBounds ==
  (After("ensureSpec") /\ OtherwiseConforms(proof.exist[1], pspec)) =>
    (~ret.threw <=>
       /\ pspec.minDepth = 0 \/ Len(proof.exist[1].path) >= pspec.minDepth
       /\ pspec.maxDepth = 0 \/ Len(proof.exist[1].path) <= pspec.maxDepth)

C10_Witness ==
  /\ After("ensureSpec")
  /\ OtherwiseConforms(proof.exist[1], pspec)
  /\ ~ret.threw
  /\ pspec.minDepth > 0
  /\ Len(proof.exist[1].path) = pspec.minDepth
  /\ Len(proof.exist[1].path) = pspec.maxDepth

---------------------------------------------------------------------------
(* The public API (src/src/ics23.ts, compress of src/src/ops.ts) *)

Init ==
  /\ pspec \in ApiSpecs
  /\ proof \in ApiProofs(pspec)
  /\ root \in ApiRoots(pspec)
  /\ pc = "ready"
  /\ call = NoCall
  /\ ret = NoRet

VerifyMembership ==
  /\ pc = "ready"
  /\ \E key \in Keys, value \in QueryValues(pspec) :
       Done([NoCall EXCEPT !.op = "verifyMembership", !.key = key,
                           !.value = value],
            Answer(verifyMembership(proof, pspec, root, key, value)))

VerifyNonMembership ==
  /\ pc = "ready"
  /\ \E key \in Keys :
       Done([NoCall EXCEPT !.op = "verifyNonMembership", !.key = key],
            Answer(verifyNonMembership(proof, pspec, root, key)))

BatchVerifyMembership ==
  /\ pc = "ready"
  /\ \E items \in SeqsUpTo(Items(pspec), MaxItems) :
       Done([NoCall EXCEPT !.op = "batchVerifyMembership", !.items = items],
            BatchAnswer(batchVerifyMembership(proof, pspec, root, items)))

BatchVerifyNonMembership ==
  /\ pc = "ready"
  /\ \E keys \in SeqsUpTo(BatchKeys(pspec), MaxItems) :
       Done([NoCall EXCEPT !.op = "batchVerifyNonMembership",
                           !.items = keys],
            BatchAnswer(batchVerifyNonMembership(proof, pspec, root, keys)))

Compress ==
  /\ pc = "ready"
  /\ Done([NoCall EXCEPT !.op = "compress"], Outcome(compress(proof)))

Decompress ==
  /\ pc = "ready"
  /\ Done([NoCall EXCEPT !.op = "decompress"], Outcome(decompress(proof)))

Next ==
  \/ VerifyMembership
  \/ VerifyNonMembership
  \/ BatchVerifyMembership
  \/ BatchVerifyNonMembership
  \/ Compress
  \/ Decompress

Spec == Init /\ [][Next]_vars

---------------------------------------------------------------------------
(* Claims about the public API, checked under Spec.                        *)

ApiVerifiers ==
  {"verifyMembership", "verifyNonMembership", "batchVerifyMembership",
   "batchVerifyNonMembership"}

(* C1: on every input, malformed ones included, verifyMembership,          *)
(* verifyNonMembership, batchVerifyMembership and batchVerifyNonMembership *)
(* complete with a boolean and never propagate an error to the caller.     *)
C1_NeverThrows ==
  (pc = "done" /\ call.op \in ApiVerifiers) => ~ret.threw

(* The first ExistenceProof of norm whose key is key: norm.exist, or the   *)
(* first such entry of norm.batch; Absent when there is none.              *)
LocatedExist(norm, key) ==
  IF norm.exist # Absent /\ norm.exist[1].key = key THEN norm.exist
  ELSE IF norm.batch = Absent THEN Absent
  ELSE LET es == norm.batch[1].entries
           I == {i \in 1..Len(es) :
                   es[i].exist # Absent /\ es[i].exist[1].key = key}
       IN  IF I = {} THEN Absent
           ELSE es[CHOOSE i \in I : \A j \in I : i <= j].exist

(* C3: verifyMembership returns a boolean: false when the decompressed     *)
(* proof holds no ExistenceProof with the queried key (as proof.exist or   *)
(* among the batch entries), and otherwise true exactly when               *)
(* verifyExistence of the located proof succeeds.                          *)
C3_LocateThenVerify ==
  After("verifyMembership") =>
    /\ ~ret.threw
    /\ decompress(proof).ok =>
         LET e == LocatedExist(decompress(proof).val, call.key)
         IN  ret.val = (/\ e # Absent
                        /\ verifyExistence(e[1], pspec, root, call.key,
                                           call.value))

(* C6: for a proof p that compress accepts (batch entries being exist or   *)
(* nonexist), each of the four verifiers gives on compress(p) the outcome  *)
(* it gives on p, with the same spec, root and key, value, items or keys.  *)
C6_CompressPreservesVerification ==
  (pc = "done" /\ call.op \in ApiVerifiers /\ compress(proof).ok) =>
    LET c == compress(proof).val
        same(r) == r.threw = ret.threw /\ r.val = ret.val
    IN  CASE call.op = "verifyMembership" ->
               same(verifyMembership(c, pspec, root, call.key, call.value))
          [] call.op = "verifyNonMembership" ->
               same(verifyNonMembership(c, pspec, root, call.key))
          [] call.op = "batchVerifyMembership" ->
               same(batchVerifyMembership(c, pspec, root, call.items))
          [] call.op = "batchVerifyNonMembership" ->
               same(batchVerifyNonMembership(c, pspec, root, call.items))

C6_Witness ==
  /\ After("verifyMembership")
  /\ proof.batch # Absent
  /\ compress(proof).ok
  /\ compress(proof).val.compressed # Absent
  /\ Len(proof.batch[1].entries) = MaxEntries
  /\ ~ret.threw
  /\ ret.val

IsExistOrNonExist(entry) == entry.exist # Absent \/ entry.nonexist # Absent

(* C7: for a batch proof p whose entries are exist or nonexist,            *)
(* decompress(compress(p)) equals p: the same entries in the same order,   *)
(* each with its key, value, leaf and sequence of inner ops.               *)
C7_RoundTrip ==
  (/\ After("compress")
   /\ proof.batch # Absent
   /\ \A i \in 1..Len(proof.batch[1].entries) :
        IsExistOrNonExist(proof.batch[1].entries[i])) =>
    /\ ~ret.threw
    /\ ret.out.compressed # Absent
    /\ decompress(ret.out) = Ok(proof)

C7_Witness ==
  /\ After("compress")
  /\ proof.batch # Absent
  /\ ~ret.threw
  /\ Len(proof.batch[1].entries) = MaxEntries
  /\ proof.batch[1].entries[1].exist # Absent
  /\ proof.batch[1].entries[MaxEntries].nonexist # Absent
  /\ proof.batch[1].entries[MaxEntries].nonexist[1].left # Absent
  /\ Len(ret.out.compressed[1].lookupInners) > 2

(* The inner ops of an optional existence proof, of a batch entry and of   *)
(* the entries of a batch, in the order compressBatch meets them.          *)
ExistInners(e) == IF e = Absent THEN <<>> ELSE e[1].path

EntryInners(entry) ==
  IF entry.exist # Absent THEN ExistInners(entry.exist)
  ELSE IF entry.nonexist # Absent
  THEN ExistInners(entry.nonexist[1].left)
         \o ExistInners(entry.nonexist[1].right)
  ELSE <<>>

RECURSIVE BatchInners(_)
BatchInners(entries) ==
  IF entries = <<>> THEN <<>>
  ELSE EntryInners(Head(entries)) \o BatchInners(Tail(entries))

(* Two entries of the batch hold an inner op with the same encoded bytes *)
SharesInner(entries) ==
  \E i, j \in 1..Len(entries) :
    /\ i < j
    /\ \E a \in 1..Len(EntryInners(entries[i])),
          b \in 1..Len(EntryInners(entries[j])) :
         encodeInnerOp(EntryInners(entries[i])[a])
           = encodeInnerOp(EntryInners(entries[j])[b])

(* C8: for a batch proof with at least 2 entries sharing at least 1 inner  *)
(* op, compress(p).lookupInners has strictly fewer entries than there are  *)
(* inner-op occurrences in p and holds no two entries with equal encoded   *)
(* bytes.                                                                  *)
C8_Deduplicates ==
  (/\ After("compress")
   /\ proof.batch # Absent
   /\ ~ret.threw
   /\ Len(proof.batch[1].entries) >= 2
   /\ SharesInner(proof.batch[1].entries)) =>
    LET lookup == ret.out.compressed[1].lookupInners
    IN  /\ Len(lookup) < Len(BatchInners(proof.batch[1].entries))
        /\ \A i, j \in 1..Len(lookup) :
             i # j => encodeInnerOp(lookup[i]) # encodeInnerOp(lookup[j])

(* C9: batchVerifyMembership returns true exactly when verifyMembership    *)
(* returns true for every item, and batchVerifyNonMembership exactly when  *)
(* verifyNonMembership returns true for every key; otherwise they return   *)
(* false, no item after the first failing one is evaluated, and an empty   *)
(* item set yields true.                                                   *)
C9_BatchIsConjunction ==
  /\ After("batchVerifyMembership") =>
       LET one(i) == verifyMembership(proof, pspec, root, call.items[i].key,
                                      call.items[i].value)
           good(i) == ~one(i).threw /\ one(i).val
           n == Len(call.items)
       IN  /\ ~ret.threw
           /\ ret.val = (\A i \in 1..n : good(i))
           /\ ret.calls = IF \A i \in 1..n : good(i) THEN n
                          ELSE CHOOSE i \in 1..n :
                                 ~good(i) /\ \A j \in 1..(i - 1) : good(j)
  /\ After("batchVerifyNonMembership") =>
       LET one(i) == verifyNonMembership(proof, pspec, root, call.items[i])
           good(i) == ~one(i).threw /\ one(i).val
           n == Len(call.items)
       IN  /\ ~ret.threw
           /\ ret.val = (\A i \in 1..n : good(i))
           /\ ret.calls = IF \A i \in 1..n : good(i) THEN n
                          ELSE CHOOSE i \in 1..n :
                                 ~good(i) /\ \A j \in 1..(i - 1) : good(j)

---------------------------------------------------------------------------
(* More claims about the proof-level functions, checked under SpecProofs.  *)

(* C11: ensureSpec raises an error when proof.leaf is absent (whatever the *)
(* path), when spec.leafSpec or spec.innerSpec is absent, when the leaf    *)
(* differs from the leaf spec, or when the op at any position of the path  *)
(* fails ensureInner; it accepts only when every op of the path passes.    *)
C11_EnsureSpecErrors ==
  After("ensureSpec") =>
    LET e == proof.exist[1]
    IN  /\ e.leaf = Absent => ret.threw
        /\ (pspec.leafSpec = Absent \/ pspec.innerSpec = Absent) => ret.threw
        /\ (e.leaf # Absent /\ pspec.leafSpec # Absent
               /\ e.leaf[1] # pspec.leafSpec[1]) => ret.threw
        /\ (pspec.leafSpec # Absent /\ pspec.innerSpec # Absent) =>
             \A i \in 1..Len(e.path) :
               ~ensureInner(e.path[i], pspec.leafSpec[1].prefix,
                            pspec.innerSpec[1]) => ret.threw

C11_Witness ==
  /\ After("ensureSpec")
  /\ ret.threw
  /\ proof.exist[1].leaf # Absent
  /\ pspec.leafSpec # Absent
  /\ pspec.innerSpec # Absent
  /\ proof.exist[1].leaf[1] = pspec.leafSpec[1]
  /\ Len(proof.exist[1].path) = 2
  /\ ensureInner(proof.exist[1].path[1], pspec.leafSpec[1].prefix,
                 pspec.innerSpec[1])
  /\ ~ensureInner(proof.exist[1].path[2], pspec.leafSpec[1].prefix,
                  pspec.innerSpec[1])
  /\ proof.exist[1].path[2] # UndefinedInner

(* The digest after the leaf op and the first n ops of the path of e:      *)
(* applyInner(path[n], ... applyInner(path[1], applyLeaf(leaf, key,        *)
(* value))).  path[1] is path[0] of the source.                            *)
RECURSIVE RootAfter(_, _)
RootAfter(e, n) ==
  IF n = 0 THEN applyLeaf(e.leaf[1], e.key, e.value)
  ELSE LET child == RootAfter(e, n - 1)
       IN  IF ~child.ok THEN Err ELSE applyInner(e.path[n], child.val)

(* C13: calculateExistenceRoot raises an error when key, value or leaf is  *)
(* missing; otherwise it is the left fold of applyInner over the path in   *)
(* index order, starting from applyLeaf(leaf, key, value), and the leaf    *)
(* digest itself when the path is empty.                                   *)
C13_RootIsLeftFold ==
  After("calculateExistenceRoot") =>
    LET e == proof.exist[1]
    IN  IF e.key = <<>> \/ e.value = <<>> \/ e.leaf = Absent
        THEN ret.threw
        ELSE /\ ret.threw = ~RootAfter(e, Len(e.path)).ok
             /\ ~ret.threw => ret.out = RootAfter(e, Len(e.path)).val
             /\ (e.path = <<>> /\ ~ret.threw) =>
                  ret.out = applyLeaf(e.leaf[1], e.key, e.value).val

C13_Witness ==
  /\ After("calculateExistenceRoot")
  /\ ~ret.threw
  /\ Len(proof.exist[1].path) = 2
  /\ proof.exist[1].path[1] # proof.exist[1].path[2]
  /\ ret.out = root

---------------------------------------------------------------------------
(* The operators of src/src/ops.ts, called one at a time.  A run draws a   *)
(* leaf op with a key and a value, an inner op and a child.                *)

MaxLength == 130

HashOps ==
  {"NO_HASH", "SHA256", "SHA512", "KECCAK", "RIPEMD160", "BITCOIN",
   "SHA512_256", "BLAKE2B_512", "BLAKE2S_256", "BLAKE3"}

LengthOps ==
  {"NO_PREFIX", "VAR_PROTO", "VAR_RLP", "FIXED32_BIG", "FIXED32_LITTLE",
   "FIXED64_BIG", "FIXED64_LITTLE", "REQUIRE_32_BYTES", "REQUIRE_64_BYTES"}

(* A byte string of n bytes: digests of the empty string, then zero bytes *)
BytesOfLength(n) ==
  [i \in 1..(n \div DigestSize) |-> Digest(<<>>)]
    \o [i \in 1..(n % DigestSize) |-> B(0)]

DataLengths == (0..MaxLength) \cup {255, 256, 16383, 16384, 16385}

Numbers ==
  DataLengths \cup {65535, 65536, 2097151, 2097152, 16777215, 16777216,
                    268435455, 268435456, 2147483647}

LeafOps ==
  [prefix : {<<B(0)>>},
   hash : {"SHA256", "NO_HASH", "absent", "SHA512"},
   prehashKey : {"NO_HASH", "SHA256", "absent", "KECCAK"},
   prehashValue : {"NO_HASH", "SHA256"},
   length : {"NO_PREFIX", "VAR_PROTO", "FIXED32_LITTLE", "REQUIRE_32_BYTES",
             "VAR_RLP", "absent"}]

InnerOps ==
  [prefix : {innerPrefix}, suffix : {<<>>},
   hash : {"SHA256", "NO_HASH", "absent", "BLAKE3"}]

OpKeys == {<<>>, <<B(1)>>, <<B(1), B(2)>>}

OpValues == {<<>>, <<B(3)>>, <<B(2), B(3)>>}

OpProof(k, v, l, i) ==
  OnlyExist([key |-> k, value |-> v, leaf |-> Some(l), path |-> <<i>>])

SampleLeaf == tendermintSpec.leafSpec[1]

SampleInner == [prefix |-> innerPrefix, suffix |-> <<>>, hash |-> "SHA256"]

OpProofs ==
  {OpProof(k, v, l, SampleInner) :
     k \in OpKeys, v \in OpValues, l \in LeafOps}
    \cup {OpProof(<<B(1)>>, <<B(3)>>, SampleLeaf, i) : i \in InnerOps}

OpData == {BytesOfLength(n) : n \in DataLengths}

InitOps ==
  /\ \/ proof \in OpProofs /\ root = Bogus
     \/ proof = OpProof(<<B(1)>>, <<B(3)>>, SampleLeaf, SampleInner)
          /\ root \in OpData
  /\ pspec = tendermintSpec
  /\ pc = "ready"
  /\ call = NoCall
  /\ ret = NoRet

ApplyLeaf ==
  /\ pc = "ready"
  /\ Done([NoCall EXCEPT !.op = "applyLeaf"],
          Outcome(applyLeaf(proof.exist[1].leaf[1], proof.exist[1].key,
                            proof.exist[1].value)))

ApplyInner ==
  /\ pc = "ready"
  /\ Done([NoCall EXCEPT !.op = "applyInner"],
          Outcome(applyInner(proof.exist[1].path[1], root)))

DoHash ==
  /\ pc = "ready"
  /\ \E hashOp \in HashOps :
       Done([op |-> "doHash", hashOp |-> hashOp],
            Outcome(doHash(hashOp, proof.exist[1].key)))

DoHashOrNoop ==
  /\ pc = "ready"
  /\ \E hashOp \in HashOps :
       Done([op |-> "doHashOrNoop", hashOp |-> hashOp],
            Outcome(doHashOrNoop(hashOp, proof.exist[1].key)))

DoLengthOp ==
  /\ pc = "ready"
  /\ \E lengthOp \in LengthOps :
       Done([op |-> "doLengthOp", lengthOp |-> lengthOp],
            Outcome(doLengthOp(lengthOp, root)))

EncodeVarintProto ==
  /\ pc = "ready"
  /\ \E n \in Numbers :
       Done([op |-> "encodeVarintProto", n |-> n],
            Outcome(Ok(encodeVarintProto(n))))

EncodeFixed32Le ==
  /\ pc = "ready"
  /\ \E n \in Numbers :
       Done([op |-> "encodeFixed32Le", n |-> n],
            Outcome(Ok(encodeFixed32Le(n))))

NextOps ==
  \/ ApplyLeaf
  \/ ApplyInner
  \/ DoHash
  \/ DoHashOrNoop
  \/ DoLengthOp
  \/ EncodeVarintProto
  \/ EncodeFixed32Le

SpecOps == InitOps /\ [][NextOps]_vars

---------------------------------------------------------------------------
(* Claims about the operators of ops.ts, checked under SpecOps             *)

(* C12: applyLeaf(op, key, value) raises an error when key or value is     *)
(* empty; otherwise its result is                                          *)
(* doHash(op.hash, op.prefix || L(H_k(key)) || L(H_v(value))), where H_k   *)
(* and H_v apply op.prehashKey and op.prehashValue (the identity for       *)
(* NO_HASH) and L applies op.length to the prehashed data; with NO_PREFIX  *)
(* and no prehash the digest depends only on key || value.                 *)
C12_ApplyLeafFormula ==
  After("applyLeaf") =>
    LET e == proof.exist[1]
        op == e.leaf[1]
        hk == doHashOrNoop(ensureHash(op.prehashKey), e.key)
        hv == doHashOrNoop(ensureHash(op.prehashValue), e.value)
        lk == IF hk.ok THEN doLengthOp(ensureLength(op.length), hk.val)
              ELSE Err
        lv == IF hv.ok THEN doLengthOp(ensureLength(op.length), hv.val)
              ELSE Err
        plain == /\ op.prehashKey \in {"NO_HASH", "absent"}
                 /\ op.prehashValue \in {"NO_HASH", "absent"}
                 /\ op.length \in {"NO_PREFIX", "absent"}
    IN  IF e.key = <<>> \/ e.value = <<>> THEN ret.threw
        ELSE IF ~lk.ok \/ ~lv.ok THEN ret.threw
        ELSE /\ ret.threw = (ensureHash(op.hash) # "SHA256")
             /\ ~ret.threw =>
                  ret.out = <<Digest(op.prefix \o lk.val \o lv.val)>>
             /\ (plain /\ ~ret.threw) =>
                  /\ ret.out = <<Digest(op.prefix \o e.key \o e.value)>>
                  /\ \A k \in OpKeys \ {<<>>}, v \in OpValues \ {<<>>} :
                       k \o v = e.key \o e.value =>
                         applyLeaf(op, k, v) = Ok(ret.out)

C12_Witness ==
  /\ After("applyLeaf")
  /\ ~ret.threw
  /\ proof.exist[1].key = <<B(1), B(2)>>
  /\ proof.exist[1].value = <<B(3)>>
  /\ proof.exist[1].leaf[1].prehashKey = "NO_HASH"
  /\ proof.exist[1].leaf[1].prehashValue = "NO_HASH"
  /\ proof.exist[1].leaf[1].length = "NO_PREFIX"

(* C14: doHash computes a digest only for SHA256 and raises an error for   *)
(* every other HashOp, NO_HASH included; NO_HASH is the identity only in   *)
(* doHashOrNoop; applyLeaf with leaf.hash NO_HASH or absent and applyInner *)
(* with inner.hash NO_HASH or absent always fail.                          *)
C14_OnlySha256 ==
  /\ After("doHash") =>
       IF call.hashOp = "SHA256"
       THEN ~ret.threw /\ ret.out = <<Digest(proof.exist[1].key)>>
              /\ byteLen(ret.out) = 32
       ELSE ret.threw
  /\ After("doHashOrNoop") =>
       IF call.hashOp = "SHA256"
       THEN ~ret.threw /\ ret.out = <<Digest(proof.exist[1].key)>>
       ELSE IF call.hashOp = "NO_HASH"
       THEN ~ret.threw /\ ret.out = proof.exist[1].key
       ELSE ret.threw
  /\ (After("applyLeaf")
        /\ proof.exist[1].leaf[1].hash \in {"NO_HASH", "absent"}) =>
       ret.threw
  /\ (After("applyInner")
        /\ proof.exist[1].path[1].hash \in {"NO_HASH", "absent"}) =>
       ret.threw

C14_Witness ==
  /\ After("applyLeaf")
  /\ proof.exist[1].leaf[1].hash = "NO_HASH"
  /\ proof.exist[1].leaf[1].prehashKey = "NO_HASH"
  /\ proof.exist[1].leaf[1].length = "NO_PREFIX"
  /\ proof.exist[1].key # <<>>
  /\ proof.exist[1].value # <<>>
  /\ ret.threw

(* The number a sequence of base-128 groups stands for, low-order first *)
RECURSIVE DecodeVarint(_)
DecodeVarint(groups) ==
  IF groups = <<>> THEN 0
  ELSE (Head(groups).b % 128) + 128 * DecodeVarint(Tail(groups))

IsVarintOf(enc, n) ==
  /\ Len(enc) >= 1
  /\ \A i \in 1..Len(enc) : ~enc[i].d /\ enc[i].b \in 0..255
  /\ \A i \in 1..(Len(enc) - 1) : enc[i].b >= 128
  /\ enc[Len(enc)].b < 128
  /\ DecodeVarint(enc) = n

IsFixed32LeOf(enc, n) ==
  /\ Len(enc) = 4
  /\ \A i \in 1..4 : ~enc[i].d /\ enc[i].b \in 0..255
  /\ enc[1].b + 256 * enc[2].b + 65536 * enc[3].b
       + 16777216 * enc[4].b = n

(* out ends with data, after at least one more byte *)
EndsWith(out, data) ==
  /\ Len(out) > Len(data)
  /\ SubSeq(out, Len(out) - Len(data) + 1, Len(out)) = data

LengthPrefix(out, data) == SubSeq(out, 1, Len(out) - Len(data))

(* C15: doLengthOp(op, data) is the reference encoding for every data      *)
(* length n: NO_PREFIX returns data; VAR_PROTO prepends the base-128       *)
(* groups of n, low-order group first, every group but the last with bit   *)
(* 0x80 set and the last below 128, decoding back to n; FIXED32_LITTLE     *)
(* prepends 4 bytes b0..b3 with b0 + 256*b1 + 256^2*b2 + 256^3*b3 = n;     *)
(* REQUIRE_32_BYTES and REQUIRE_64_BYTES return data when n is 32 and 64   *)
(* and raise an error otherwise; every other LengthOp raises an error.     *)
C15_LengthEncodings ==
  /\ After("doLengthOp") =>
       LET n == byteLen(root)
       IN  CASE call.lengthOp = "NO_PREFIX" ->
                  ~ret.threw /\ ret.out = root
             [] call.lengthOp = "VAR_PROTO" ->
                  /\ ~ret.threw
                  /\ EndsWith(ret.out, root)
                  /\ IsVarintOf(LengthPrefix(ret.out, root), n)
             [] call.lengthOp = "FIXED32_LITTLE" ->
                  /\ ~ret.threw
                  /\ EndsWith(ret.out, root)
                  /\ IsFixed32LeOf(LengthPrefix(ret.out, root), n)
             [] call.lengthOp = "REQUIRE_32_BYTES" ->
                  IF n = 32 THEN ~ret.threw /\ ret.out = root
                  ELSE ret.threw
             [] call.lengthOp = "REQUIRE_64_BYTES" ->
                  IF n = 64 THEN ~ret.threw /\ ret.out = root
                  ELSE ret.threw
             [] OTHER -> ret.threw
  /\ After("encodeVarintProto") => IsVarintOf(ret.out, call.n)
  /\ After("encodeFixed32Le") => IsFixed32LeOf(ret.out, call.n)

C15_Witness ==
  /\ After("doLengthOp")
  /\ call.lengthOp = "VAR_PROTO"
  /\ byteLen(root) = 16384
  /\ Len(LengthPrefix(ret.out, root)) = 3

---------------------------------------------------------------------------
(* src/src/webcat.ts                                                       *)
(*                                                                         *)
(* A string is the sequence of its UTF-8 bytes.  A hex string is a         *)
(* sequence of characters: B(v) with v in 0..15 is the hex digit of value  *)
(* v, B(16) a character that is no hex digit, and HexDigest(x) the 64 hex  *)
(* digits of the digest of x.  The hex strings of the model keep every     *)
(* HexDigest at an even offset.                                            *)

Raw(codes) == [i \in 1..Len(codes) |-> B(codes[i])]

(* "JMT::LeafNode" *)
webcatLeafPrefix ==
  Raw(<<74, 77, 84, 58, 58, 76, 101, 97, 102, 78, 111, 100, 101>>)

(* "JMT::IntrnalNode", the innerPrefix of webcat.ts *)
webcatInnerPrefix ==
  Raw(<<74, 77, 84, 58, 58, 73, 110, 116, 114, 110, 97, 108, 78, 111, 100,
        101>>)

(* "SPARSE_MERKLE_PLACEHOLDER_HASH__" *)
placeholderMarker ==
  Raw(<<83, 80, 65, 82, 83, 69, 95, 77, 69, 82, 75, 76, 69, 95, 80, 76, 65,
        67, 69, 72, 79, 76, 68, 69, 82, 95, 72, 65, 83, 72, 95, 95>>)

(* "canonical" and "canonical/" *)
CanonicalKey == Raw(<<99, 97, 110, 111, 110, 105, 99, 97, 108>>)

CanonicalSlash == CanonicalKey \o <<B(47)>>

webcatSpec ==
  [leafSpec |-> Some([prefix |-> webcatLeafPrefix, hash |-> "SHA256",
                      prehashValue |-> "SHA256", prehashKey |-> "SHA256",
                      length |-> "NO_PREFIX"]),
   innerSpec |-> Some([childOrder |-> <<0, 1>>,
                       minPrefixLength |-> Len(webcatInnerPrefix),
                       maxPrefixLength |-> Len(webcatInnerPrefix),
                       childSize |-> 32, hash |-> "SHA256",
                       emptyChild |-> <<>>]),
   minDepth |-> 0, maxDepth |-> 256, prehashKeyBeforeComparison |-> TRUE]

HexDigest(preimage) == [d |-> TRUE, b |-> 1, pre |-> preimage]

hexLength(hexstring) ==
  64 * Cardinality({i \in 1..Len(hexstring) : hexstring[i].d})
    + Cardinality({i \in 1..Len(hexstring) : ~hexstring[i].d})

(* The loop of fromHex, two characters at a time *)
RECURSIVE hexBytes(_)
hexBytes(hexstring) ==
  IF hexstring = <<>> THEN Ok(<<>>)
  ELSE IF Head(hexstring).d
  THEN LET rest == hexBytes(Tail(hexstring))
       IN  IF ~rest.ok THEN Err
           ELSE Ok(<<Digest(Head(hexstring).pre)>> \o rest.val)
  ELSE IF Len(hexstring) < 2 \/ hexstring[2].d THEN Err
  ELSE IF hexstring[1].b > 15 \/ hexstring[2].b > 15 THEN Err
  ELSE LET rest == hexBytes(SubSeq(hexstring, 3, Len(hexstring)))
       IN  IF ~rest.ok THEN Err
           ELSE Ok(<<B(16 * hexstring[1].b + hexstring[2].b)>> \o rest.val)

fromHex(hexstring) ==
  IF hexLength(hexstring) % 2 # 0 THEN Err ELSE hexBytes(hexstring)

(* CommitmentProof.decode(fromHex(hex)): an element of proof_bytes is its  *)
(* hex text with the message its bytes encode, absent when they encode     *)
(* none.                                                                   *)
decodeProof(hex) ==
  IF ~fromHex(hex.text).ok THEN Err
  ELSE IF hex.msg = Absent THEN Err
  ELSE Ok(hex.msg[1])

placeholderHash == sha256(placeholderMarker)

canonicalizeKey(key) ==
  IF hasPrefix(key, CanonicalSlash)
  THEN SubSeq(key, Len(CanonicalSlash) + 1, Len(key))
  ELSE key

normalizeLeaf(leaf) ==
  IF Len(leaf) < 2 THEN Err ELSE Ok(<<leaf[1], leaf[2]>>)

(* leaves.map(normalizeLeaf) *)
normalizeLeaves(leaves) ==
  IF \E i \in 1..Len(leaves) : ~normalizeLeaf(leaves[i]).ok THEN Err
  ELSE Ok([i \in 1..Len(leaves) |-> normalizeLeaf(leaves[i]).val])

leafHash(key, valueHex) ==
  LET hashedKey == sha256(canonicalizeKey(key))
      value == fromHex(valueHex)
  IN  IF ~value.ok THEN Err
      ELSE Ok(sha256(webcatLeafPrefix \o hashedKey \o sha256(value.val)))

combineChildren(left, right) == sha256(webcatInnerPrefix \o left \o right)

(* Byte i of a digest.  Byte 0 is the digest's position in byte order; the *)
(* other bytes are a scramble of it.                                       *)
DigestByte(preimage, i) ==
  IF i = 0 THEN DigestRank(preimage)
  ELSE (DigestRank(preimage) * 37 + i * 101) % 256

(* hash[i] ?? 0 *)
RECURSIVE byteAt(_, _)
byteAt(hash, i) ==
  IF hash = <<>> THEN 0
  ELSE IF Head(hash).d
  THEN IF i < DigestSize THEN DigestByte(Head(hash).pre, i)
       ELSE byteAt(Tail(hash), i - DigestSize)
  ELSE IF i = 0 THEN Head(hash).b
  ELSE byteAt(Tail(hash), i - 1)

(* bitIsSet reading the bits of a byte from the low end *)
bitIsSetLowFirst(hash, depth) ==
  (byteAt(hash, depth \div 8) \div (2 ^ (depth % 8))) % 2 = 1

bitIsSet(hash, depth) ==
  LET byteIndex == depth \div 8
      bitIndex == 7 - (depth % 8)
  IN  (byteAt(hash, byteIndex) \div (2 ^ bitIndex)) % 2 = 1

prepareLeaves(leaves) ==
  IF \E i \in 1..Len(leaves) : ~leafHash(leaves[i][1], leaves[i][2]).ok
  THEN Err
  ELSE Ok([i \in 1..Len(leaves) |->
             [keyHash |-> sha256(canonicalizeKey(leaves[i][1])),
              nodeHash |-> leafHash(leaves[i][1], leaves[i][2]).val]])

(* The leaves pushed to right (set) or to left, in their order *)
RECURSIVE sideOf(_, _, _)
sideOf(leaves, depth, set) ==
  IF leaves = <<>> THEN <<>>
  ELSE (IF bitIsSet(Head(leaves).keyHash, depth) = set
        THEN <<Head(leaves)>> ELSE <<>>)
         \o sideOf(Tail(leaves), depth, set)

RECURSIVE buildJmtRoot(_, _, _)
buildJmtRoot(placeholder, leaves, depth) ==
  IF Len(leaves) = 0 THEN placeholder
  ELSE IF Len(leaves) = 1 \/ depth >= 256 THEN leaves[1].nodeHash
  ELSE LET left == sideOf(leaves, depth, FALSE)
           right == sideOf(leaves, depth, TRUE)
           leftHash == IF Len(left) # 0
                       THEN buildJmtRoot(placeholder, left, depth + 1)
                       ELSE placeholder
           rightHash == IF Len(right) # 0
                        THEN buildJmtRoot(placeholder, right, depth + 1)
                        ELSE placeholder
       IN  combineChildren(leftHash, rightHash)

reconstructCanonicalRoot(leaves) ==
  IF Len(leaves) = 0 THEN Ok(placeholderHash)
  ELSE LET normalized == normalizeLeaves(leaves)
       IN  IF ~normalized.ok THEN Err
           ELSE LET prepared == prepareLeaves(normalized.val)
                IN  IF ~prepared.ok THEN Err
                    ELSE Ok(buildJmtRoot(placeholderHash, prepared.val, 0))

verifyCanonicalRootLink(appHashHex, canonicalRootHex, proofBytes) ==
  IF Len(proofBytes) = 0 THEN Returned(FALSE)
  ELSE LET canonicalProof == decodeProof(proofBytes[Len(proofBytes)])
       IN  IF ~canonicalProof.ok THEN Threw
           ELSE IF canonicalProof.val.exist = Absent THEN Returned(FALSE)
           ELSE LET appHash == fromHex(appHashHex)
                    canonicalRoot == fromHex(canonicalRootHex)
                IN  IF ~appHash.ok \/ ~canonicalRoot.ok THEN Threw
                    ELSE IF verifyExistence(canonicalProof.val.exist[1],
                                            webcatSpec, appHash.val,
                                            CanonicalKey, canonicalRoot.val)
                    THEN Returned(TRUE)
                    ELSE Threw

(* The result of verifyWebcatProof: the leaves on success, or false *)
WebcatLeaves(leaves) == [threw |-> FALSE, val |-> TRUE, out |-> leaves]

WebcatFalse == [threw |-> FALSE, val |-> FALSE, out |-> <<>>]

WebcatThrew == [threw |-> TRUE, val |-> FALSE, out |-> <<>>]

(* The try block of verifyWebcatProof *)
verifyWebcatProofTry(data) ==
  LET normalizedLeaves == normalizeLeaves(data.leaves)
  IN  IF ~normalizedLeaves.ok THEN WebcatThrew
      ELSE
        LET reconstructedRoot == reconstructCanonicalRoot(normalizedLeaves.val)
            declared == fromHex(data.proof.canonical_root_hash)
        IN  IF ~reconstructedRoot.ok \/ ~declared.ok THEN WebcatThrew
            ELSE IF ~bytesEqual(reconstructedRoot.val, declared.val)
            THEN WebcatFalse
            ELSE
              LET canonicalLinkValid ==
                    verifyCanonicalRootLink(
                      data.proof.app_hash, data.proof.canonical_root_hash,
                      data.proof.merkle_proof.proof_bytes)
              IN  IF canonicalLinkValid.threw THEN WebcatThrew
                  ELSE IF ~canonicalLinkValid.val THEN WebcatFalse
                  ELSE WebcatLeaves(normalizedLeaves.val)

(* verifyWebcatProof without its catch *)
verifyWebcatProofNoCatch(data) == verifyWebcatProofTry(data)

verifyWebcatProof(data) ==
  IF verifyWebcatProofTry(data).threw THEN WebcatFalse
  ELSE verifyWebcatProofTry(data)

---------------------------------------------------------------------------
(* Leaves files, as in testdata/webcat/leaves.json, and the calls on them  *)

MaxLeaves == 3

(* The longest run of nested calls of buildJmtRoot that is evaluated *)
MaxChain == 8

(* The hex text of bytes *)
RECURSIVE HexOf(_)
HexOf(bytes) ==
  IF bytes = <<>> THEN <<>>
  ELSE (IF Head(bytes).d THEN <<HexDigest(Head(bytes).pre)>>
        ELSE <<B(Head(bytes).b \div 16), B(Head(bytes).b % 16)>>)
         \o HexOf(Tail(bytes))

(* Keys "a", "b", "c", "d" and "canonical/a"; values "01", "02", "03", a   *)
(* text of odd length and a text with a character that is no hex digit.    *)
LeafPool ==
  { <<Raw(<<97>>), HexOf(<<B(1)>>)>>,
    <<Raw(<<98>>), HexOf(<<B(2)>>)>>,
    <<CanonicalSlash \o Raw(<<97>>), HexOf(<<B(3)>>)>>,
    <<Raw(<<99>>), HexOf(<<B(1)>>), Raw(<<122, 122>>)>>,
    <<Raw(<<100>>)>>,
    <<Raw(<<100>>), <<B(1)>>>>,
    <<Raw(<<100>>), <<B(16), B(0)>>>> }

LeafLists == UNION {[1..n -> LeafPool] : n \in 0..MaxLeaves}

SampleLists ==
  { <<>>,
    << <<Raw(<<97>>), HexOf(<<B(1)>>)>>, <<Raw(<<98>>), HexOf(<<B(2)>>)>> >>,
    << <<Raw(<<99>>), HexOf(<<B(1)>>), Raw(<<122, 122>>)>> >> }

(* "JMT::InternalNode" *)
InternalNodePrefix ==
  Raw(<<74, 77, 84, 58, 58, 73, 110, 116, 101, 114, 110, 97, 108, 78, 111,
        100, 101>>)

LinkStep(prefix) == [hash |-> "SHA256", prefix |-> prefix, suffix |-> Bogus]

(* The existence proof of ("canonical", value) in the application tree *)
LinkExist(value, path) ==
  [key |-> CanonicalKey, value |-> value, leaf |-> webcatSpec.leafSpec,
   path |-> path]

ProofHex(msg) == [text |-> <<B(10), B(2)>>, msg |-> Some(msg)]

JunkHex == [text |-> <<B(0), B(0)>>, msg |-> Absent]

BadHex(msg) == [text |-> <<B(10), B(16)>>, msg |-> Some(msg)]

WebcatFile(leaves, canonicalRootHex, appHashHex, proofBytes) ==
  [block_height |-> 1, leaves |-> leaves,
   proof |-> [app_hash |-> appHashHex,
              canonical_root_hash |-> canonicalRootHex,
              merkle_proof |-> [proof_bytes |-> proofBytes]]]

Prepared(leaves) ==
  IF normalizeLeaves(leaves).ok
  THEN prepareLeaves(normalizeLeaves(leaves).val)
  ELSE Err

(* Two of the leaves have one canonical key: buildJmtRoot keeps them       *)
(* together down to depth 256.                                             *)
SharesKeyHash(leaves) ==
  /\ Prepared(leaves).ok
  /\ \E i, j \in 1..Len(leaves) :
       i < j /\ Prepared(leaves).val[i].keyHash
                  = Prepared(leaves).val[j].keyHash

(* The root of the leaves, or the placeholder when they have none *)
RootOrPlaceholder(leaves) ==
  IF ~SharesKeyHash(leaves) /\ reconstructCanonicalRoot(leaves).ok
  THEN reconstructCanonicalRoot(leaves).val
  ELSE placeholderHash

GoodLink(canonicalRoot) ==
  LinkExist(canonicalRoot, <<LinkStep(webcatInnerPrefix)>>)

AppHash(exist) == calculateExistenceRoot(exist).val

GoodFile(leaves, canonicalRoot) ==
  WebcatFile(leaves, HexOf(canonicalRoot), HexOf(AppHash(GoodLink(canonicalRoot))),
             <<JunkHex, ProofHex(OnlyExist(GoodLink(canonicalRoot)))>>)

LinkExists(canonicalRoot) ==
  { GoodLink(canonicalRoot),
    LinkExist(canonicalRoot, <<>>),
    LinkExist(canonicalRoot, <<LinkStep(InternalNodePrefix)>>),
    LinkExist(canonicalRoot, <<LinkStep(webcatLeafPrefix \o <<B(0), B(0), B(0)>>)>>),
    LinkExist(canonicalRoot, <<LinkStep(<<B(1)>>)>>),
    LinkExist(Bogus, <<LinkStep(webcatInnerPrefix)>>),
    [GoodLink(canonicalRoot) EXCEPT !.key = CanonicalSlash],
    [GoodLink(canonicalRoot) EXCEPT !.leaf = Some(tendermintSpec.leafSpec[1])] }

ProofByteLists(good, links) ==
  { <<>>, <<JunkHex>>, <<ProofHex(OnlyExist(good)), JunkHex>>,
    <<BadHex(OnlyExist(good))>>,
    <<ProofHex(OnlyNonExist(NonExist(Some(good), Absent)))>>,
    <<ProofHex(OnlyNonExist(NonExist(Absent, Absent))),
      ProofHex(OnlyExist(good))>> }
    \cup {<<ProofHex(OnlyExist(e))>> : e \in links}

HexTexts(bytes) ==
  {HexOf(bytes), HexOf(Bogus), <<>>, <<B(1)>>, <<B(16), B(0)>>,
   HexOf(bytes) \o <<B(0), B(0)>>}

TamperedFiles(leaves, canonicalRoot, good, links) ==
  { WebcatFile(leaves, c, a, p) :
      c \in HexTexts(canonicalRoot),
      a \in HexTexts(AppHash(good))
              \cup {HexOf(AppHash(e)) : e \in links},
      p \in ProofByteLists(good, links) }

TamperedOf(leaves, canonicalRoot) ==
  TamperedFiles(leaves, canonicalRoot, GoodLink(canonicalRoot),
                LinkExists(canonicalRoot))

WebcatFiles ==
  {GoodFile(l, RootOrPlaceholder(l)) : l \in LeafLists}
    \cup UNION {TamperedOf(l, RootOrPlaceholder(l)) : l \in SampleLists}

Depths == (0..MaxChain) \cup ((256 - MaxChain)..256)

(* The leaves have the same key-hash bits above depth: they reach one call *)
(* of buildJmtRoot at that depth.                                          *)
AgreeBelow(leaves, depth) ==
  {d \in 0..(depth - 1) :
     \E i, j \in 1..Len(leaves) :
       bitIsSet(leaves[i].keyHash, d) # bitIsSet(leaves[j].keyHash, d)} = {}

WebcatRet(r) == Ret(r.threw, r.val, 0, r.out)

InitWebcat ==
  /\ proof \in WebcatFiles
  /\ pspec = webcatSpec
  /\ root = placeholderHash
  /\ pc = "ready"
  /\ call = NoCall
  /\ ret = NoRet

VerifyWebcatProof ==
  /\ pc = "ready"
  /\ ~SharesKeyHash(proof.leaves)
  /\ Done([NoCall EXCEPT !.op = "verifyWebcatProof"],
          WebcatRet(verifyWebcatProof(proof)))

ReconstructCanonicalRoot ==
  /\ pc = "ready"
  /\ ~SharesKeyHash(proof.leaves)
  /\ Done([NoCall EXCEPT !.op = "reconstructCanonicalRoot"],
          Outcome(reconstructCanonicalRoot(proof.leaves)))

BuildJmtRoot ==
  /\ pc = "ready"
  /\ Prepared(proof.leaves).ok
  /\ \E depth \in Depths :
       /\ SharesKeyHash(proof.leaves) => depth >= 256 - MaxChain
       /\ AgreeBelow(Prepared(proof.leaves).val, depth)
       /\ Done([op |-> "buildJmtRoot", depth |-> depth,
                leaves |-> Prepared(proof.leaves).val],
               Outcome(Ok(buildJmtRoot(root, Prepared(proof.leaves).val,
                                       depth))))

EnsureLeftMost ==
  /\ pc = "ready"
  /\ \E prefix \in {webcatInnerPrefix, InternalNodePrefix} :
       Done([op |-> "ensureLeftMost", prefix |-> prefix],
            Ret(~ensureLeftMost(pspec.innerSpec[1], <<LinkStep(prefix)>>),
                TRUE, 0, <<>>))

NextWebcat ==
  \/ VerifyWebcatProof
  \/ ReconstructCanonicalRoot
  \/ BuildJmtRoot
  \/ EnsureLeftMost

SpecWebcat == InitWebcat /\ [][NextWebcat]_vars

---------------------------------------------------------------------------
(* Claims about the sidecar verifier, checked under SpecWebcat             *)

(* Each leaf reduced to its key and value, in input order *)
Pairs(leaves) == [i \in 1..Len(leaves) |-> <<leaves[i][1], leaves[i][2]>>]

(* The last element of proof_bytes is an existence proof of ("canonical",  *)
(* canonical_root_hash) under app_hash.                                    *)
LinkVerifies(p) ==
  /\ Len(p.merkle_proof.proof_bytes) > 0
  /\ LET last == p.merkle_proof.proof_bytes[Len(p.merkle_proof.proof_bytes)]
     IN  /\ fromHex(last.text).ok
         /\ last.msg # Absent
         /\ last.msg[1].exist # Absent
         /\ fromHex(p.app_hash).ok
         /\ fromHex(p.canonical_root_hash).ok
         /\ verifyExistence(last.msg[1].exist[1], webcatSpec,
                            fromHex(p.app_hash).val, CanonicalKey,
                            fromHex(p.canonical_root_hash).val)

RootMatches(data) ==
  /\ \A i \in 1..Len(data.leaves) : Len(data.leaves[i]) >= 2
  /\ reconstructCanonicalRoot(Pairs(data.leaves)).ok
  /\ fromHex(data.proof.canonical_root_hash).ok
  /\ reconstructCanonicalRoot(Pairs(data.leaves)).val
       = fromHex(data.proof.canonical_root_hash).val

MsbBit(hash, depth) ==
  (byteAt(hash, depth \div 8) \div (2 ^ (7 - (depth % 8)))) % 2

Lowest(S) == CHOOSE i \in S : \A j \in S : i <= j

(* The root over the leaves with index in S, by the recursion of the spec *)
RECURSIVE RefRoot(_, _, _)
RefRoot(leaves, S, depth) ==
  IF S = {} THEN sha256(placeholderMarker)
  ELSE IF Cardinality(S) = 1 \/ depth >= 256
  THEN leaves[Lowest(S)].nodeHash
  ELSE sha256(webcatInnerPrefix
                \o RefRoot(leaves,
                           {i \in S : MsbBit(leaves[i].keyHash, depth) = 0},
                           depth + 1)
                \o RefRoot(leaves,
                           {i \in S : MsbBit(leaves[i].keyHash, depth) = 1},
                           depth + 1))

(* C17 as stated: zero leaves give the placeholder hash, exactly one leaf  *)
(* at any depth gives that leaf's node hash, and otherwise the leaves are  *)
(* partitioned by bit number depth of their key hash (bit 0 left, bit 1    *)
(* right), each side built at depth + 1 with the placeholder for an empty  *)
(* side, and the result is SHA256(innerPrefix || leftHash || rightHash).   *)
C17_StatedRecursion ==
  After("buildJmtRoot") =>
    LET S == 1..Len(call.leaves)
    IN  IF S = {} THEN ret.out = sha256(placeholderMarker)
        ELSE IF Cardinality(S) = 1 THEN ret.out = call.leaves[1].nodeHash
        ELSE ret.out =
               sha256(webcatInnerPrefix
                        \o RefRoot(call.leaves,
                                   {i \in S : MsbBit(call.leaves[i].keyHash,
                                                     call.depth) = 0},
                                   call.depth + 1)
                        \o RefRoot(call.leaves,
                                   {i \in S : MsbBit(call.leaves[i].keyHash,
                                                     call.depth) = 1},
                                   call.depth + 1))

(* C17, amended: as stated while depth < 256; at depth 256 or more any     *)
(* non-empty list of leaves gives the node hash of its first leaf.  The    *)
(* root of a leaves file is the one built at depth 0, the placeholder for  *)
(* no leaves.                                                              *)
C17_RecursionToDepth256 ==
  /\ After("buildJmtRoot") =>
       /\ ~ret.threw
       /\ ret.out = RefRoot(call.leaves, 1..Len(call.leaves), call.depth)
  /\ (After("reconstructCanonicalRoot") /\ ~ret.threw) =>
       ret.out = RefRoot(Prepared(proof.leaves).val, 1..Len(proof.leaves), 0)
  /\ (After("reconstructCanonicalRoot") /\ proof.leaves = <<>>) =>
       ~ret.threw /\ ret.out = sha256(placeholderMarker)

C17_Witness ==
  /\ After("buildJmtRoot")
  /\ call.depth = 256
  /\ Len(call.leaves) = 2
  /\ ret.out = call.leaves[1].nodeHash

(* C18: webcatSpec has one-byte-tolerant inner prefix bounds: an inner op  *)
(* of a leftmost step is accepted by the padding check both with the       *)
(* 17-byte prefix "JMT::InternalNode" and with the 16-byte prefix, that    *)
(* is minPrefixLength <= 16 and maxPrefixLength >= 17; its leaf prefix is  *)
(* the 13-byte "JMT::LeafNode", childSize 32, childOrder [0, 1], maxDepth  *)
(* 256 and prehashKeyBeforeComparison true.                                *)
C18_OneByteTolerance ==
  After("ensureLeftMost") =>
    /\ ~ret.threw
    /\ pspec.innerSpec[1].minPrefixLength <= 16
    /\ pspec.innerSpec[1].maxPrefixLength >= 17
    /\ pspec.leafSpec[1].prefix = webcatLeafPrefix
    /\ byteLen(pspec.leafSpec[1].prefix) = 13
    /\ pspec.innerSpec[1].childSize = 32
    /\ pspec.innerSpec[1].childOrder = <<0, 1>>
    /\ pspec.maxDepth = 256
    /\ pspec.prehashKeyBeforeComparison

---------------------------------------------------------------------------
(* Tampering, checked under Spec                                           *)

(* Byte strings other than prefix *)
PrefixChanges(prefix) ==
  ({<<>>, <<B(7)>>, prefix \o <<B(0)>>, <<B(0)>> \o prefix}
     \cup (IF prefix = <<>> THEN {}
           ELSE {SubSeq(prefix, 1, Len(prefix) - 1),
                 <<B(7)>> \o Tail(prefix)}))
    \ {prefix}

HashChanges(hash) == (HashOps \cup {"absent"}) \ {hash}

(* The leaf op with another prefix or another hash op *)
TamperedLeafs(leaf) ==
  {[leaf EXCEPT !.prefix = x] : x \in PrefixChanges(leaf.prefix)}
    \cup {[leaf EXCEPT !.hash = h] : h \in HashChanges(leaf.hash)}

(* The inner op with another prefix or another hash op *)
TamperedInners(inner) ==
  {[inner EXCEPT !.prefix = x] : x \in PrefixChanges(inner.prefix)}
    \cup {[inner EXCEPT !.hash = h] : h \in HashChanges(inner.hash)}

TamperedExists(e) ==
  {[e EXCEPT !.leaf = Some(l)] : l \in TamperedLeafs(e.leaf[1])}
    \cup UNION {{[e EXCEPT !.path[i] = op] : op \in TamperedInners(e.path[i])} :
                  i \in 1..Len(e.path)}

(* The first entry with an existence proof of key *)
FirstMatch(entries, key) ==
  CHOOSE i \in 1..Len(entries) :
    /\ matchExist(entries[i].exist, key)
    /\ \A j \in 1..(i - 1) : ~matchExist(entries[j].exist, key)

TamperedBatches(b, i) ==
  {[b EXCEPT !.entries[i].exist = Some(e)] :
     e \in TamperedExists(b.entries[i].exist[1])}

(* A compressed batch with the leaf op of entry i changed, or one of the   *)
(* inner ops its path points to.                                           *)
TamperedCompressed(c, i) ==
  {[c EXCEPT !.entries[i].exist[1].leaf = Some(l)] :
     l \in TamperedLeafs(c.entries[i].exist[1].leaf[1])}
    \cup UNION {{[c EXCEPT !.lookupInners[c.entries[i].exist[1].path[j] + 1]
                            = op] :
                   op \in TamperedInners(
                            c.lookupInners[c.entries[i].exist[1].path[j] + 1])} :
                  j \in 1..Len(c.entries[i].exist[1].path)}

(* The proof with the existence proof of key changed in one place *)
TamperedProofs(p, key) ==
  IF p.exist # Absent
  THEN {[p EXCEPT !.exist = Some(e)] : e \in TamperedExists(p.exist[1])}
  ELSE IF p.batch # Absent
  THEN {[p EXCEPT !.batch = Some(b)] :
          b \in TamperedBatches(p.batch[1],
                                FirstMatch(p.batch[1].entries, key))}
  ELSE IF p.compressed # Absent
  THEN {[p EXCEPT !.compressed = Some(c)] :
          c \in TamperedCompressed(p.compressed[1],
                                   FirstMatch(p.compressed[1].entries, key))}
  ELSE {}

RootChanges(r) ==
  (Roots(LeafHashes(pspec)) \cup {<<>>, r \o <<B(0)>>}) \ {r}

ValueChanges(value) ==
  (QueryValues(pspec) \cup {<<>>, value \o <<B(0)>>}) \ {value}

(* C19: with SHA-256 collision free, if verifyMembership(p, s, r, k, v) is *)
(* true, then it is false after changing only the root, only the prefix of *)
(* the leaf op, only the prefix of one path[i], only the hash op of the    *)
(* leaf or of one path[i], or only the queried value.                      *)
C19_TamperSensitive ==
  (After("verifyMembership") /\ ~ret.threw /\ ret.val) =>
    /\ \A r \in RootChanges(root) :
         verifyMembership(proof, pspec, r, call.key, call.value)
           = Returned(FALSE)
    /\ \A v \in ValueChanges(call.value) :
         verifyMembership(proof, pspec, root, call.key, v) = Returned(FALSE)
    /\ \A p \in TamperedProofs(proof, call.key) :
         verifyMembership(p, pspec, root, call.key, call.value)
           = Returned(FALSE)

C19_Witness ==
  /\ After("verifyMembership")
  /\ ~ret.threw
  /\ ret.val
  /\ proof.compressed # Absent
  /\ Cardinality(TamperedProofs(proof, call.key)) > 20

---------------------------------------------------------------------------
(* The queried key of verifyNonExistence, checked under SpecProofs         *)

(* K(a) is before K(b); false when either cannot be computed *)
BeforeK(spec, a, b) ==
  /\ keyForComparison(spec, a).ok
  /\ keyForComparison(spec, b).ok
  /\ bytesBefore(keyForComparison(spec, a).val,
                 keyForComparison(spec, b).val)

(* k and other have the same comparison key, or comparison keys on the     *)
(* same side of the key of each neighbour of ne.                           *)
SameSideK(ne, spec, k, other) ==
  \/ keyForComparison(spec, other) = keyForComparison(spec, k)
  \/ /\ ne.left # Absent =>
          BeforeK(spec, ne.left[1].key, other)
            = BeforeK(spec, ne.left[1].key, k)
     /\ ne.right # Absent =>
          BeforeK(spec, other, ne.right[1].key)
            = BeforeK(spec, k, ne.right[1].key)

(* C20: the outcome of verifyNonExistence(ne, s, r, k) depends on the      *)
(* queried key k only through its comparison key K(k): for two keys k and  *)
(* k' with K(k') = K(k), and more generally with K(k') and K(k) on the     *)
(* same side of each neighbour's comparison key, verifyNonExistence on k'  *)
(* succeeds iff it succeeds on k.                                          *)
C20_OnlyThroughComparisonKey ==
  After("verifyNonExistence") =>
    \A other \in QueryKeys :
      SameSideK(proof.nonexist[1], pspec, call.key, other) =>
        verifyNonExistence(proof.nonexist[1], pspec, root, other)
          = ~ret.threw

C20_Witness ==
  /\ After("verifyNonExistence")
  /\ ~ret.threw
  /\ pspec.prehashKeyBeforeComparison
  /\ \E other \in QueryKeys :
       /\ other # call.key
       /\ SameSideK(proof.nonexist[1], pspec, call.key, other)

---------------------------------------------------------------------------
(* Interleaved calls.  Two calls run on the same proof, spec and root.     *)
(* An async function runs until a hash is awaited, is suspended there and  *)
(* is resumed later with the digest; between two suspensions of one call   *)
(* any step of the other may run.  pc[t] is the await a call is suspended  *)
(* at, call[t] its activation record and ret[t] what it settled with.      *)
(* compress has no await and runs in one step.                             *)

Tasks == {"a", "b"}

(* The locals of one invocation: norm and the entry looked at (ics23.ts),  *)
(* the existence proofs to verify, the one being verified and the inner    *)
(* op reached (proofs.ts), pkey, pvalue (ops.ts) and res (proofs.ts).      *)
(* overlap records that the call was resumed while another was suspended.  *)
NoFrame ==
  [op |-> "none", key |-> <<>>, value |-> <<>>, norm |-> <<>>, j |-> 0,
   ne |-> Absent, todo |-> <<>>, cur |-> 0, i |-> 0, pkey |-> <<>>,
   pvalue |-> <<>>, res |-> <<>>, overlap |-> FALSE]

Suspend(stage, f) == [pc |-> stage, f |-> f, r |-> NoRet]

Settle(f, r) == [pc |-> "done", f |-> f, r |-> Answer(r)]

(* res of every invocation read from the record of call "a" *)
accumulatedShared(frames, t) == frames["a"].res

(* let res, declared inside calculateExistenceRoot: one per invocation *)
accumulated(frames, t) == frames[t].res

(* verifyExistence up to the first hash of applyLeaf: ensureSpec, the      *)
(* checks of calculateExistenceRoot and the length checks of applyLeaf.    *)
enterExistence(f, spec) ==
  LET e == f.todo[f.cur]
  IN  IF ~ensureSpec(e, spec) THEN Settle(f, Returned(FALSE))
      ELSE IF byteLen(e.key) = 0 \/ byteLen(e.value) = 0
      THEN Settle(f, Returned(FALSE))
      ELSE Suspend("pkey", f)

(* The statements of verifyNonExistence after the two verifyExistence *)
nonExistenceTail(ne, spec, key) ==
  /\ ne.left # Absent =>
       LET a == keyForComparison(spec, ne.left[1].key)
           b == keyForComparison(spec, key)
       IN  a.ok /\ b.ok /\ ensureBytesBefore(a.val, b.val)
  /\ ne.right # Absent =>
       LET a == keyForComparison(spec, key)
           b == keyForComparison(spec, ne.right[1].key)
       IN  a.ok /\ b.ok /\ ensureBytesBefore(a.val, b.val)
  /\ spec.innerSpec # Absent
  /\ IF ne.left = Absent
     THEN ensureLeftMost(spec.innerSpec[1], ne.right[1].path)
     ELSE IF ne.right = Absent
     THEN ensureRightMost(spec.innerSpec[1], ne.left[1].path)
     ELSE ensureLeftNeighbor(spec.innerSpec[1], ne.left[1].path,
                             ne.right[1].path)

(* calculateExistenceRoot has returned res: the comparisons that end       *)
(* verifyExistence, then the next existence proof or the end of the call.  *)
afterRoot(f, res, spec, r) ==
  LET e == f.todo[f.cur]
      g == [f EXCEPT !.res = res]
  IN  IF ~ensureBytesEqual(res, r) THEN Settle(g, Returned(FALSE))
      ELSE IF f.op = "verifyMembership"
      THEN Settle(g, Returned(/\ ensureBytesEqual(f.key, e.key)
                              /\ ensureBytesEqual(f.value, e.value)))
      ELSE IF f.cur < Len(f.todo)
      THEN enterExistence([g EXCEPT !.cur = f.cur + 1], spec)
      ELSE Suspend("compare", g)

(* verifyNonExistence(nonexist, ...) up to its first hash *)
enterNonExistence(f, nonexist, spec) ==
  LET g == [f EXCEPT !.ne = nonexist,
                     !.todo = nonexist[1].left \o nonexist[1].right,
                     !.cur = 1]
  IN  IF g.todo = <<>> THEN Settle(g, Returned(FALSE))
      ELSE enterExistence(g, spec)

(* The candidates of getNonExistForKey: proof.nonexist, then the entries   *)
(* of the batch.                                                           *)
candidate(norm, j) ==
  IF j = 0 THEN norm.nonexist ELSE norm.batch[1].entries[j].nonexist

lastCandidate(norm) ==
  IF norm.batch = Absent THEN 0 ELSE Len(norm.batch[1].entries)

(* One await match(...) of getNonExistForKey *)
resumeLocate(f, spec) ==
  LET m == matchNonExist(spec, candidate(f.norm, f.j), f.key)
  IN  IF ~m.ok THEN Settle(f, Threw)
      ELSE IF m.val THEN enterNonExistence(f, candidate(f.norm, f.j), spec)
      ELSE IF f.j >= lastCandidate(f.norm) THEN Settle(f, Returned(FALSE))
      ELSE Suspend("locate", [f EXCEPT !.j = f.j + 1])

(* The call of t is resumed at the await it is suspended at *)
resume(frames, t, stage, spec, r) ==
  LET f == frames[t]
      e == f.todo[f.cur]
      leaf == e.leaf[1]
  IN  CASE stage = "locate" -> resumeLocate(f, spec)
        [] stage = "pkey" ->
             LET pkey == prepareLeafData(ensureHash(leaf.prehashKey),
                                         ensureLength(leaf.length), e.key)
             IN  IF ~pkey.ok THEN Settle(f, Returned(FALSE))
                 ELSE Suspend("pvalue", [f EXCEPT !.pkey = pkey.val])
        [] stage = "pvalue" ->
             LET pvalue == prepareLeafData(ensureHash(leaf.prehashValue),
                                           ensureLength(leaf.length),
                                           e.value)
             IN  IF ~pvalue.ok THEN Settle(f, Returned(FALSE))
                 ELSE Suspend("leaf", [f EXCEPT !.pvalue = pvalue.val])
        [] stage = "leaf" ->
             LET res == doHash(ensureHash(leaf.hash),
                               leaf.prefix \o f.pkey \o f.pvalue)
             IN  IF ~res.ok THEN Settle(f, Returned(FALSE))
                 ELSE IF e.path = <<>> THEN afterRoot(f, res.val, spec, r)
                 ELSE Suspend("inner", [f EXCEPT !.res = res.val, !.i = 1])
        [] stage = "inner" ->
             LET res == applyInner(e.path[f.i], accumulated(frames, t))
             IN  IF ~res.ok THEN Settle(f, Returned(FALSE))
                 ELSE IF f.i = Len(e.path)
                 THEN afterRoot(f, res.val, spec, r)
                 ELSE Suspend("inner",
                              [f EXCEPT !.res = res.val, !.i = f.i + 1])
        [] stage = "compare" ->
             Settle(f, Returned(nonExistenceTail(f.ne[1], spec, f.key)))

(* verifyMembership up to its first hash *)
startMembership(p, spec, key, value) ==
  LET f == [NoFrame EXCEPT !.op = "verifyMembership", !.key = key,
                           !.value = value]
      norm == decompress(p)
  IN  IF ~norm.ok THEN Settle(f, Threw)
      ELSE LET exist == getExistForKey(norm.val, key)
               g == [f EXCEPT !.norm = norm.val, !.todo = exist, !.cur = 1]
           IN  IF exist = Absent THEN Settle(g, Returned(FALSE))
               ELSE enterExistence(g, spec)

(* verifyNonMembership up to its first await *)
startNonMembership(p, spec, key) ==
  LET f == [NoFrame EXCEPT !.op = "verifyNonMembership", !.key = key]
      norm == decompress(p)
  IN  IF ~norm.ok THEN Settle(f, Threw)
      ELSE Suspend("locate", [f EXCEPT !.norm = norm.val])

(* The inputs of the interleaved calls *)
AsyncSpecs == {tendermintSpec, smtSpec, BadHashSpec}

AsyncProofs(P) ==
  LET near == NonExistEntry(NonExist(Some(P[1]), Some(P[2])))
      far == NonExistEntry(NonExist(Some(P[1]), Some(P[3])))
      good == ExistEntry(P[1])
      bad == ExistEntry([P[1] EXCEPT !.value = WrongValue])
  IN  { OnlyExist(P[1]), OnlyNonExist(NonExist(Absent, Some(P[1]))),
        SampleBatch(P), compress(SampleBatch(P)).val,
        OnlyBatch([entries |-> <<far, near>>]),
        OnlyBatch([entries |-> <<bad, good>>]),
        OnlyCompressed([compress(SampleBatch(P)).val.compressed[1]
                          EXCEPT !.lookupInners = <<>>]) }

AsyncKeys(spec) ==
  {KeyOf(TreeKeys(spec)[1]), IF TreeKeys(spec)[1] = 2 THEN KeyOf(3)
                                                       ELSE KeyOf(5)}

InitAsync ==
  /\ pspec \in AsyncSpecs
  /\ proof \in AsyncProofs(TreeProofs(pspec))
  /\ root \in ApiRoots(pspec)
  /\ pc = [t \in Tasks |-> "ready"]
  /\ call = [t \in Tasks |-> NoFrame]
  /\ ret = [t \in Tasks |-> NoRet]

Suspended(t) == pc[t] \notin {"ready", "done"}

Continue(t, c) ==
  /\ pc' = [pc EXCEPT ![t] = c.pc]
  /\ call' = [call EXCEPT ![t] =
                [c.f EXCEPT !.overlap =
                   call[t].overlap \/ \E u \in Tasks \ {t} : Suspended(u)]]
  /\ ret' = [ret EXCEPT ![t] = c.r]
  /\ UNCHANGED <<proof, pspec, root>>

CallVerifyMembership(t) ==
  /\ pc[t] = "ready"
  /\ \E key \in AsyncKeys(pspec) :
       Continue(t, startMembership(proof, pspec, key,
                                   ValueOf(TreeKeys(pspec)[1])))

CallVerifyNonMembership(t) ==
  /\ pc[t] = "ready"
  /\ \E key \in AsyncKeys(pspec) :
       Continue(t, startNonMembership(proof, pspec, key))

CallCompress(t) ==
  /\ pc[t] = "ready"
  /\ Continue(t, [pc |-> "done",
                  f |-> [NoFrame EXCEPT !.op = "compress"],
                  r |-> Outcome(compress(proof))])

Resume(t) ==
  /\ Suspended(t)
  /\ Continue(t, resume(call, t, pc[t], pspec, root))

NextAsync ==
  \E t \in Tasks :
    \/ CallVerifyMembership(t)
    \/ CallVerifyNonMembership(t)
    \/ CallCompress(t)
    \/ Resume(t)

SpecAsync == InitAsync /\ [][NextAsync]_vars

(* What the call recorded in f returns when nothing else runs *)
Alone(f) ==
  CASE f.op = "verifyMembership" ->
         Answer(verifyMembership(proof, pspec, root, f.key, f.value))
    [] f.op = "verifyNonMembership" ->
         Answer(verifyNonMembership(proof, pspec, root, f.key))
    [] f.op = "compress" -> Outcome(compress(proof))

(* C21: interleaved at their awaits, every verifyMembership,               *)
(* verifyNonMembership and compress call settles with the result the same  *)
(* call gives when run alone.                                              *)
C21_Independent ==
  \A t \in Tasks : pc[t] = "done" => ret[t] = Alone(call[t])

C21_Witness ==
  /\ \A t \in Tasks : pc[t] = "done" /\ call[t].overlap
  /\ call["a"].op = "verifyMembership" /\ ret["a"].val
  /\ call["b"].op = "verifyNonMembership" /\ ret["b"].val

---------------------------------------------------------------------------
(* src/src/proofs.ts: ensureLeftNeighbor on arrays.  A store holds the     *)
(* arrays a call can reach, by name: left and right are the arrays passed  *)
(* in, mutleft and mutright the ones the call allocates.                   *)

(* const mutleft = left: the same array under a second name *)
arrayAlias(store, src, fresh) == [store |-> store, ref |-> src]

(* [...src]: a new array holding the elements of src *)
arrayCopy(store, src, fresh) ==
  [store |-> [store EXCEPT ![fresh] = store[src]], ref |-> fresh]

(* array.pop(): removes and returns the last element, undefined if none *)
arrayPop(store, ref) ==
  IF store[ref] = <<>> THEN [store |-> store, val |-> UndefinedInner]
  ELSE [store |-> [store EXCEPT ![ref] = SubSeq(@, 1, Len(@) - 1)],
        val |-> store[ref][Len(store[ref])]]

(* The while loop of ensureLeftNeighbor; reading the prefix of undefined   *)
(* throws.                                                                 *)
RECURSIVE popWhileEqual(_, _, _, _, _)
popWhileEqual(store, mutleft, mutright, topleft, topright) ==
  IF topleft = UndefinedInner \/ topright = UndefinedInner
  THEN [ok |-> FALSE, store |-> store, topleft |-> topleft,
        topright |-> topright]
  ELSE IF /\ bytesEqual(topleft.prefix, topright.prefix)
          /\ bytesEqual(topleft.suffix, topright.suffix)
  THEN LET l == arrayPop(store, mutleft)
           r == arrayPop(l.store, mutright)
       IN  popWhileEqual(r.store, mutleft, mutright, l.val, r.val)
  ELSE [ok |-> TRUE, store |-> store, topleft |-> topleft,
        topright |-> topright]

(* ensureLeftNeighbor(spec, store.left, store.right): whether it returns,  *)
(* and the store it leaves.                                                *)
ensureLeftNeighborIn(spec, store) ==
  LET cl == arrayCopy(store, "left", "mutleft")
      cr == arrayCopy(cl.store, "right", "mutright")
      l == arrayPop(cr.store, cl.ref)
      r == arrayPop(l.store, cr.ref)
      w == popWhileEqual(r.store, cl.ref, cr.ref, l.val, r.val)
  IN  IF ~w.ok THEN [ok |-> FALSE, store |-> w.store]
      ELSE LET step == isLeftStep(spec, w.topleft, w.topright)
           IN  [ok |-> /\ step.ok
                       /\ step.val
                       /\ ensureRightMost(spec, w.store[cl.ref])
                       /\ ensureLeftMost(spec, w.store[cr.ref]),
                store |-> w.store]

---------------------------------------------------------------------------
(* The padding functions of proofs.ts as a state machine: a run draws an   *)
(* inner spec and two paths, each action is one call.                      *)

MaxBranches == 3

MaxPath == 3

(* Child orders: every sequence of up to MaxBranches branch numbers,       *)
(* permutations or not.                                                    *)
ChildOrders ==
  UNION {[1..b -> 0..(MaxBranches - 1)] : b \in 1..MaxBranches}

PaddingSpec(order, size, lo, hi) ==
  [childOrder |-> order, childSize |-> size, minPrefixLength |-> lo,
   maxPrefixLength |-> hi, hash |-> "SHA256", emptyChild |-> <<>>]

PaddingSpecs ==
  {PaddingSpec(order, size, len[1], len[2]) :
     order \in ChildOrders, size \in 0..2,
     len \in {<<0, 0>>, <<1, 1>>, <<1, 2>>}}

(* An inner op with a prefix of p bytes and a suffix of s bytes, all x *)
PaddedOp(p, s, x) ==
  [hash |-> "SHA256", prefix |-> [i \in 1..p |-> B(x)],
   suffix |-> [i \in 1..s |-> B(x)]]

PaddedOps(spec) ==
  {PaddedOp(p, s, 0) :
     p \in 0..(spec.maxPrefixLength
                 + (Len(spec.childOrder) - 1) * spec.childSize),
     s \in 0..((Len(spec.childOrder) - 1) * spec.childSize + 1)}

(* The step of a path that takes child number branch *)
StepAt(spec, branch, x) ==
  PaddedOp(getPadding(spec, branch).val.minPrefix,
           getPadding(spec, branch).val.suffix, x)

NeighborSpecs ==
  {PaddingSpec(<<0, 1>>, 1, 1, 1), PaddingSpec(<<1, 0>>, 1, 1, 1),
   PaddingSpec(<<0, 1, 2>>, 1, 1, 1)}

(* The steps paths are made of: one per branch; under the first spec also  *)
(* a step with other bytes and a step with no padding at all.              *)
NeighborOps(spec) ==
  {StepAt(spec, b, 0) : b \in 0..(Len(spec.childOrder) - 1)}
    \cup IF spec.childOrder = <<0, 1>>
         THEN {StepAt(spec, 0, 1), PaddedOp(0, 0, 0)}
         ELSE {}

Paths(spec) == SeqsUpTo(NeighborOps(spec), MaxPath)

PathStore(left, right) ==
  [left |-> left, right |-> right, mutleft |-> <<>>, mutright |-> <<>>]

InitPadding ==
  /\ \/ /\ pspec \in PaddingSpecs
        /\ proof = PathStore(<<>>, <<>>)
     \/ /\ pspec \in NeighborSpecs
        /\ \E left \in Paths(pspec), right \in Paths(pspec) :
             proof = PathStore(left, right)
  /\ root = <<>>
  /\ pc = "ready"
  /\ call = NoCall
  /\ ret = NoRet

GetPosition ==
  /\ pc = "ready"
  /\ \E branch \in -1..MaxBranches :
       Done([op |-> "getPosition", branch |-> branch],
            Outcome(getPosition(pspec.childOrder, branch)))

GetPadding ==
  /\ pc = "ready"
  /\ \E branch \in -1..MaxBranches :
       Done([op |-> "getPadding", branch |-> branch],
            Outcome(getPadding(pspec, branch)))

OrderFromPadding ==
  /\ pc = "ready"
  /\ \E inner \in PaddedOps(pspec) :
       Done([op |-> "orderFromPadding", inner |-> inner],
            Outcome(orderFromPadding(pspec, inner)))

(* call keeps the two paths as they were passed *)
EnsureLeftNeighbor ==
  /\ pc = "ready"
  /\ pspec \in NeighborSpecs
  /\ LET r == ensureLeftNeighborIn(pspec, proof)
     IN  /\ proof' = r.store
         /\ call' = [op |-> "ensureLeftNeighbor", left |-> proof.left,
                     right |-> proof.right]
         /\ ret' = Ret(~r.ok, TRUE, 0, <<>>)
  /\ pc' = "done"
  /\ UNCHANGED <<pspec, root>>

NextPadding ==
  \/ GetPosition
  \/ GetPadding
  \/ OrderFromPadding
  \/ EnsureLeftNeighbor

SpecPadding == InitPadding /\ [][NextPadding]_vars

---------------------------------------------------------------------------
(* Claims about the padding functions, checked under SpecPadding           *)

SameStep(a, b) == a.prefix = b.prefix /\ a.suffix = b.suffix

(* The length of the longest run of pairwise identical steps at the root   *)
(* end of the two paths.                                                   *)
CommonRun(left, right) ==
  LET most == IF Len(left) < Len(right) THEN Len(left) ELSE Len(right)
      runs == {k \in 0..most :
                 \A m \in 1..k : SameStep(left[Len(left) - m + 1],
                                          right[Len(right) - m + 1])}
  IN  CHOOSE k \in runs : \A other \in runs : other <= k

HasPaddingOf(spec, step, branch) ==
  LET pad == getPadding(spec, branch)
  IN  pad.ok /\ hasPadding(step, pad.val.minPrefix, pad.val.maxPrefix,
                           pad.val.suffix)

(* The condition under which ensureLeftNeighbor is to accept *)
IsLeftNeighbor(spec, left, right) ==
  LET k == CommonRun(left, right)
      nl == Len(left) - k
      nr == Len(right) - k
  IN  /\ nl >= 1
      /\ nr >= 1
      /\ orderFromPadding(spec, left[nl]).ok
      /\ orderFromPadding(spec, right[nr]).ok
      /\ orderFromPadding(spec, right[nr]).val
           = orderFromPadding(spec, left[nl]).val + 1
      /\ \A i \in 1..(nl - 1) :
           HasPaddingOf(spec, left[i], Len(spec.childOrder) - 1)
      /\ \A i \in 1..(nr - 1) : HasPaddingOf(spec, right[i], 0)

(* C22: ensureLeftNeighbor(spec, left, right) returns exactly when, after  *)
(* the longest run of identical steps is removed from the root end of both *)
(* paths, both still have a step, the two first divergent steps are        *)
(* branches b and b + 1, every left step below is rightmost and every      *)
(* right step below is leftmost; in every other case it throws.  It agrees *)
(* with the ensureLeftNeighbor that verifyNonExistence calls.              *)
C22_LeftNeighborExactly ==
  After("ensureLeftNeighbor") =>
    /\ ~ret.threw = IsLeftNeighbor(pspec, call.left, call.right)
    /\ ~ret.threw = ensureLeftNeighbor(pspec, call.left, call.right)

C22_Witness ==
  /\ After("ensureLeftNeighbor")
  /\ ~ret.threw
  /\ CommonRun(call.left, call.right) >= 1
  /\ Len(call.left) >= 3
  /\ Len(call.right) >= 3

(* ensureLeftNeighbor throws on identical paths, on an empty path and when *)
(* one path ends inside the common run.                                    *)
C22_WitnessRejected ==
  /\ After("ensureLeftNeighbor")
  /\ ret.threw
  /\ CommonRun(call.left, call.right) = Len(call.left)
  /\ Len(call.right) > Len(call.left)
  /\ Len(call.left) >= 1

IsPermutation(order) ==
  {order[i] : i \in 1..Len(order)} = 0..(Len(order) - 1)

(* The branches whose padding the inner op has: the prefix length within   *)
(* the bounds of the branch, the suffix length equal to its suffix.        *)
MatchingBranches(spec, inner) ==
  {b \in 0..(Len(spec.childOrder) - 1) :
     LET pad == getPadding(spec, b).val
     IN  /\ pad.minPrefix <= byteLen(inner.prefix)
         /\ byteLen(inner.prefix) <= pad.maxPrefix
         /\ byteLen(inner.suffix) = pad.suffix}

(* C23: under an inner spec whose childOrder is a permutation of 0..b-1    *)
(* and whose childSize is positive, an inner op has the padding of at most *)
(* one branch; orderFromPadding returns that branch, and throws when there *)
(* is none.                                                                *)
C23_UniqueBranch ==
  ( /\ After("orderFromPadding")
    /\ IsPermutation(pspec.childOrder)
    /\ pspec.childSize > 0 ) =>
    LET matching == MatchingBranches(pspec, call.inner)
    IN  /\ Cardinality(matching) <= 1
        /\ matching = {} => ret.threw
        /\ \A b \in matching : ~ret.threw /\ ret.out = b

C23_Witness ==
  /\ After("orderFromPadding")
  /\ pspec.childOrder = <<2, 0, 1>>
  /\ pspec.childSize = 2
  /\ pspec.maxPrefixLength > pspec.minPrefixLength
  /\ ~ret.threw
  /\ ret.out = 1

(* C24: getPosition(order, b) either throws or returns a position i with   *)
(* 0 <= i < |order| and order[i] = b; in particular it throws when b is in *)
(* 0..|order|-1 but is not a value of the order.                           *)
C24_PositionOrError ==
  After("getPosition") =>
    \/ ret.threw
    \/ /\ 0 <= ret.out
       /\ ret.out < Len(pspec.childOrder)
       /\ pspec.childOrder[ret.out + 1] = call.branch

---------------------------------------------------------------------------
(* src/src/ops.ts: compress and decompress on arrays.  The store holds the *)
(* proof passed in, with the two arrays of its batch apart (entries,       *)
(* lookupInners), and the arrays the call allocates (centries, lookup).    *)

(* []: a new, empty array *)
newArray(store, fresh) ==
  [store |-> [store EXCEPT ![fresh] = <<>>], ref |-> fresh]

(* array.push(x) for every x of xs, in order *)
pushAll(store, ref, xs) == [store EXCEPT ![ref] = @ \o xs]

ProofStore(p) ==
  [proof |-> p,
   entries |-> IF p.batch # Absent THEN p.batch[1].entries
               ELSE IF p.compressed # Absent THEN p.compressed[1].entries
               ELSE <<>>,
   lookupInners |-> IF p.compressed # Absent
                    THEN p.compressed[1].lookupInners
                    ELSE <<>>,
   centries |-> <<>>, lookup |-> <<>>]

(* The proof as its holder reads it from the store *)
CallerProof(store) ==
  LET p == store.proof
  IN  IF p.batch # Absent
      THEN [p EXCEPT !.batch = Some([entries |-> store.entries])]
      ELSE IF p.compressed # Absent
      THEN [p EXCEPT !.compressed =
                       Some([entries |-> store.entries,
                             lookupInners |-> store.lookupInners])]
      ELSE p

(* compress(proof): centries and lookup are new arrays, filled by push;    *)
(* a throw leaves them as they are.                                        *)
compressIn(store) ==
  LET p == CallerProof(store)
  IN  IF p.batch = Absent THEN [ok |-> TRUE, val |-> p, store |-> store]
      ELSE
        LET centries == newArray(store, "centries")
            lookup == newArray(centries.store, "lookup")
            c == compressBatch(p.batch[1])
            pushed == pushAll(pushAll(lookup.store, centries.ref,
                                      c.val.entries),
                              lookup.ref, c.val.lookupInners)
        IN  IF ~c.ok
            THEN [ok |-> FALSE, val |-> <<>>, store |-> lookup.store]
            ELSE [ok |-> TRUE,
                  val |-> OnlyCompressed(
                            [entries |-> pushed[centries.ref],
                             lookupInners |-> pushed[lookup.ref]]),
                  store |-> pushed]

(* decompress(proof): entries.map(...) gives a new array *)
decompressIn(store) ==
  LET p == CallerProof(store)
  IN  IF p.compressed = Absent
      THEN [ok |-> TRUE, val |-> p, store |-> store]
      ELSE
        LET entries == newArray(store, "centries")
            b == decompressBatch(p.compressed[1])
            mapped == pushAll(entries.store, entries.ref, b.val.entries)
        IN  IF ~b.ok
            THEN [ok |-> FALSE, val |-> <<>>, store |-> entries.store]
            ELSE [ok |-> TRUE,
                  val |-> OnlyBatch([entries |-> mapped[entries.ref]]),
                  store |-> mapped]

(* The proofs compress and decompress are run on *)
FrameProofs(P) ==
  AsyncProofs(P)
    \cup {OnlyBatch([entries |-> <<>>]),
          OnlyBatch([entries |-> <<ExistEntry(P[1]), EmptyEntry>>]),
          OnlyNonExist(NonExist(Some(P[1]), Some(P[2])))}

InitFrame ==
  /\ \/ /\ pspec \in NeighborSpecs
        /\ \E left \in Paths(pspec), right \in Paths(pspec) :
             proof = PathStore(left, right)
     \/ /\ pspec = tendermintSpec.innerSpec[1]
        /\ \E p \in FrameProofs(TreeProofs(tendermintSpec)) :
             proof = ProofStore(p)
  /\ root = <<>>
  /\ pc = "ready"
  /\ call = NoCall
  /\ ret = NoRet

(* call keeps the proof as it was passed *)
CompressStore ==
  /\ pc = "ready"
  /\ pspec \notin NeighborSpecs
  /\ LET r == compressIn(proof)
     IN  /\ proof' = r.store
         /\ call' = [op |-> "compress", proof |-> CallerProof(proof)]
         /\ ret' = Outcome(r)
  /\ pc' = "done"
  /\ UNCHANGED <<pspec, root>>

DecompressStore ==
  /\ pc = "ready"
  /\ pspec \notin NeighborSpecs
  /\ LET r == decompressIn(proof)
     IN  /\ proof' = r.store
         /\ call' = [op |-> "decompress", proof |-> CallerProof(proof)]
         /\ ret' = Outcome(r)
  /\ pc' = "done"
  /\ UNCHANGED <<pspec, root>>

NextFrame ==
  \/ EnsureLeftNeighbor
  \/ CompressStore
  \/ DecompressStore

SpecFrame == InitFrame /\ [][NextFrame]_vars

(* C25: a call leaves what it was given as it was.  After                  *)
(* ensureLeftNeighbor the two paths passed in have the steps they had;     *)
(* after compress and decompress the proof passed in has the entries and   *)
(* lookupInners it had, the result being the one of the function; a proof  *)
(* with no batch comes back from compress, and a proof with no compressed  *)
(* batch from decompress, as the very proof passed in.                     *)
C25_InputsUnchanged ==
  /\ After("ensureLeftNeighbor") =>
       proof.left = call.left /\ proof.right = call.right
  /\ After("compress") =>
       /\ CallerProof(proof) = call.proof
       /\ Outcome(compress(call.proof)) = ret
       /\ call.proof.batch = Absent => ~ret.threw /\ ret.out = call.proof
  /\ After("decompress") =>
       /\ CallerProof(proof) = call.proof
       /\ Outcome(decompress(call.proof)) = ret
       /\ call.proof.compressed = Absent =>
            ~ret.threw /\ ret.out = call.proof

C25_Witness ==
  /\ After("ensureLeftNeighbor")
  /\ ~ret.threw
  /\ Len(call.left) >= 3
  /\ Len(proof.mutleft) < Len(call.left) - 1
  /\ Len(proof.mutright) < Len(call.right) - 1

---------------------------------------------------------------------------
(* The order of the leaves, checked under SpecWebcat                       *)

(* The lists with the elements of s in every order *)
Permutations(s) ==
  {[i \in 1..Len(s) |-> s[f[i]]] :
     f \in {g \in [1..Len(s) -> 1..Len(s)] :
              \A i, j \in 1..Len(s) : g[i] = g[j] => i = j}}

(* C26: the root is the same for every order of the leaves:                *)
(* reconstructCanonicalRoot gives every permutation of its list the result *)
(* it gives the list, and so does every call of buildJmtRoot it makes,     *)
(* the call at depth 256 on leaves with one canonical key included.        *)
C26_OrderIndependent ==
  /\ After("reconstructCanonicalRoot") =>
       \A leaves \in Permutations(proof.leaves) :
         Outcome(reconstructCanonicalRoot(leaves)) = ret
  /\ After("buildJmtRoot") =>
       \A leaves \in Permutations(call.leaves) :
         buildJmtRoot(root, leaves, call.depth) = ret.out

---------------------------------------------------------------------------
(* The entry a batch is decided on (src/src/ics23.ts:116-165) *)

(* The entries of the batch the verifiers look in: those of the            *)
(* decompressed proof.                                                     *)
NormEntries == decompress(proof).val.batch[1].entries

OnBatch == decompress(proof).ok /\ decompress(proof).val.batch # Absent

(* The bracket of the non-existence proof n contains key: both             *)
(* comparisons can be made and put key strictly inside.                    *)
InBracket(spec, n, key) ==
  /\ n # Absent
  /\ \/ n[1].left = Absent
     \/ /\ comparedBefore(spec, n[1].left[1].key, key).ok
        /\ comparedBefore(spec, n[1].left[1].key, key).val
  /\ \/ n[1].right = Absent
     \/ /\ comparedBefore(spec, key, n[1].right[1].key).ok
        /\ comparedBefore(spec, key, n[1].right[1].key).val

ExistMatches(entries, key) ==
  {i \in 1..Len(entries) : matchExist(entries[i].exist, key)}

BracketMatches(spec, entries, key) ==
  {i \in 1..Len(entries) : InBracket(spec, entries[i].nonexist, key)}

Least(s) == CHOOSE i \in s : \A j \in s : i <= j

(* C27: on a batch, verifyMembership returns what verifyExistence says of  *)
(* the first existence entry, in batch order, whose key equals the queried *)
(* key, and verifyNonMembership what verifyNonExistence says of the first  *)
(* non-existence entry whose bracket contains the key: when that entry     *)
(* fails the result is false, whatever the later entries are.              *)
C27_FirstMatchOnly ==
  /\ After("verifyMembership") /\ OnBatch
       /\ ExistMatches(NormEntries, call.key) # {} =>
     LET first == NormEntries[Least(ExistMatches(NormEntries, call.key))]
     IN  /\ ~ret.threw
         /\ ret.val = verifyExistence(first.exist[1], pspec, root, call.key,
                                      call.value)
  /\ After("verifyNonMembership") /\ OnBatch
       /\ BracketMatches(pspec, NormEntries, call.key) # {} =>
     LET first ==
           NormEntries[Least(BracketMatches(pspec, NormEntries, call.key))]
     IN  /\ ~ret.threw
         /\ ret.val = verifyNonExistence(first.nonexist[1], pspec, root,
                                         call.key)

(* A membership query answered false on a batch whose first entry for the  *)
(* key fails and whose second entry for the same key verifies.             *)
C27_Witness ==
  /\ After("verifyMembership")
  /\ OnBatch
  /\ ~ret.threw
  /\ ~ret.val
  /\ Cardinality(ExistMatches(NormEntries, call.key)) = 2
  /\ \E i \in ExistMatches(NormEntries, call.key) :
       verifyExistence(NormEntries[i].exist[1], pspec, root, call.key,
                       call.value)

(* The same for a non-membership query: two brackets contain the key, the  *)
(* first does not verify and the second does.                              *)
C27_WitnessNonMembership ==
  /\ After("verifyNonMembership")
  /\ OnBatch
  /\ ~ret.threw
  /\ ~ret.val
  /\ Cardinality(BracketMatches(pspec, NormEntries, call.key)) = 2
  /\ \E i \in BracketMatches(pspec, NormEntries, call.key) :
       verifyNonExistence(NormEntries[i].nonexist[1], pspec, root, call.key)

=============================================================================
